---- MODULE Spec2Model ----
(***************************************************************************)
(* The stream loader of the rx-player (src/core/stream/stream_loader.ts)   *)
(* and the manifest refresh it drives (src/core/stream/refresh_manifest.ts)*)
(* as a state machine.  One call of loadStreamOnMediaSource, one           *)
(* subscription to the Observable it returns, and the events that reach    *)
(* that subscription: timer expiries, buffer events, manifest fetch        *)
(* results, sub-loop emissions, and the teardown.                          *)
(*                                                                         *)
(* Time is in milliseconds.  A timer fires exactly when it is due: the     *)
(* clock does not advance past a pending timer.                            *)
(***************************************************************************)
EXTENDS Integers, Sequences, FiniteSets, Bags, TLC

VARIABLES
  phase,        \* "idle" | "thrown" | "created" | "running" | "unsubscribed" | "errored"
  now,          \* the clock, in ms
  load,         \* the arguments of the call and what the call read from the manifest
  manifest,     \* the Manifest instance: url, minimumUpdatePeriod, number of update() calls
  replay,       \* refreshMinimumUpdatePeriod$: the value the ReplaySubject(1) holds
  timers,       \* bag of pending observableTimer subscriptions of updateManifest$
  fetches,      \* bag of manifest fetches in flight (subscriptions to fetchManifest(url))
  eos,          \* maintainEndOfStream subscriptions: live now, and started so far (history)
  media,        \* mediaElement.currentTime and whether the MediaSource duration was set
  sbm,          \* the SourceBufferManager: created, native buffers, disposeAll calls
  active,       \* the sources of the merge that are subscribed to and have not completed
  error,        \* the error that ended the load or the stream
  inp,          \* history: number of notifications received from the merged sources, and the last one
  out,          \* history: number of events emitted on the output, and the last one
  subscribedAt, \* history: the time of the subscription
  refreshed,    \* history: the last manifest-update event, and whether it carried the duration of its fetch
  speed,        \* the SpeedManager: requested rate, buffer filling, playbackRate
  built,        \* a call of the Adaptation or the Period constructor, and what it made
  quality,      \* the PlaybackQualityManager: the means of each stream, the last tick, the maps emitted
  live,         \* a call of handleLiveEvents: the message, the observable returned, what it emitted
  bxf           \* a call of loadBXF: the parsed contents, the requests, the promises, the metaplaylist

vars == << phase, now, load, manifest, replay, timers, fetches, eos,
           media, sbm, active, error, inp, out, subscribedAt, refreshed,
           speed, built, quality, live, bxf >>

\* the variables of the parts that are modelled apart from the stream loader
parts == << speed, built, quality, live, bxf >>

----------------------------------------------------------------------------
(* Bounds of the model *)

\* manifest refreshes (fetches started) in one run
MaxRefresh == 2
\* notifications of the merged sources (buffer events, speed, stalling, load) in one run
MaxEvents == 2
\* clock advances in one run
MaxTicks == 3

\* the amounts by which the clock advances, in ms
ClockSteps == {500}

----------------------------------------------------------------------------
(* Optional numbers: undefined, or a number *)

Undefined == << >>
Num(n) == << n >>
\* (x || 0)
OrZero(x) == IF x = Undefined THEN 0 ELSE x[1]
\* if (x)
Truthy(x) == x # Undefined /\ x[1] # 0
\* x && x > 0
TruthyAndPositive(x) == Truthy(x) /\ x[1] > 0

Max(a, b) == IF a >= b THEN a ELSE b

----------------------------------------------------------------------------
(* The inputs *)

\* minimumUpdatePeriod of a manifest, in seconds
MinimumUpdatePeriods == { Undefined, Num(-1), Num(0), Num(2) }
\* minimumUpdatePeriod of a fetched manifest, in seconds
FetchedUpdatePeriods == { Undefined, Num(-1), Num(2) }
\* manifestFetchingDuration of the initial load, in ms
FetchingDurations == { Undefined, Num(500), Num(3000) }
\* the Periods of the manifest at load: [0, 2) and [3, ...), a gap in [2, 3)
Periods == << [id |-> "p1", start |-> 0, end |-> Num(2)],
              [id |-> "p2", start |-> 3, end |-> Undefined] >>
InitialTimes == { 0, 2 }
\* Period.adaptations of the initial Period: its keys in order and, for each, the
\* number of Representations of each of its Adaptations
AdaptationLayouts ==
  { << [type |-> "video", adaptations |-> << 2 >>],
       [type |-> "audio", adaptations |-> << 1 >>],
       [type |-> "text", adaptations |-> << 1 >>] >>,
    << [type |-> "audio", adaptations |-> << 1 >>],
       [type |-> "video", adaptations |-> << >>] >>,
    << [type |-> "video", adaptations |-> << >>],
       [type |-> "audio", adaptations |-> << 1 >>] >> }
BufferTypes == { "audio", "video", "text" }
NextTimes == { 1, 3 }

NoError == [code |-> "none", fatal |-> FALSE]
NoEvent == [type |-> "none"]
\* before the first manifest-update event
NotRefreshed == [evt |-> NoEvent, carriedFetchDuration |-> FALSE]
\* the parts that are modelled apart, while the stream loader is the one that runs
NoSpeedManager == [on |-> FALSE]
NothingBuilt == [stage |-> "none"]
NoQualityManager == [on |-> "off"]
NoLiveEventsHandler == [stage |-> "none"]
NoBXF == [stage |-> "none"]

----------------------------------------------------------------------------
(* The manifest *)

NoPeriod == [id |-> "none"]

RECURSIVE PeriodUpToEnd(_, _, _)
\* a lookup that takes the end of a Period as a time of the Period
PeriodUpToEnd(periods, i, t) ==
  IF i > Len(periods) THEN NoPeriod
  ELSE IF /\ periods[i].start <= t
          /\ (periods[i].end = Undefined \/ t <= periods[i].end[1])
       THEN periods[i]
       ELSE PeriodUpToEnd(periods, i + 1, t)

RECURSIVE PeriodOf(_, _, _)
\* the first Period of periods, from the i-th on, with start <= t and no end
\* or t < end
PeriodOf(periods, i, t) ==
  IF i > Len(periods) THEN NoPeriod
  ELSE IF /\ periods[i].start <= t
          /\ (periods[i].end = Undefined \/ t < periods[i].end[1])
       THEN periods[i]
       ELSE PeriodOf(periods, i + 1, t)

PeriodFrom(i, t) == PeriodOf(Periods, i, t)

\* manifest.getPeriodForTime(t): the Period whose [start, end) contains t, or none
GetPeriodForTime(t) == PeriodFrom(1, t)

\* the ids of the Periods of a fetched manifest: p1 is gone, p2 is still there,
\* p3 is new
FetchedPeriodIds == { "p2", "p3" }

\* The Period objects of the Manifest passed at load.  An object is told by the
\* manifest it was parsed with: 0 at load, k for the k-th refresh.
PeriodObjectsAtLoad ==
  { [id |-> Periods[i].id, object |-> 0] : i \in 1..Len(Periods) }

\* a fetched manifest, as the manifest pipeline parses it: another Manifest
Parsed(minimumUpdatePeriod) ==
  [instance |-> "parsed", minimumUpdatePeriod |-> minimumUpdatePeriod,
   periods |-> FetchedPeriodIds]

\* The merge of the Periods by id: a Period of the instance whose id is in the
\* fetched manifest stays, one whose id is not is removed, and the fetched
\* Periods with a new id are added
MergePeriods(periods, parsed, k) ==
  { p \in periods : p.id \in parsed.periods }
    \cup { [id |-> i, object |-> k] :
             i \in parsed.periods \ { p.id : p \in periods } }

\* currentManifest.update(parsed): merges the fetched manifest into the instance
ManifestUpdate(m, parsed) ==
  [m EXCEPT !.minimumUpdatePeriod = parsed.minimumUpdatePeriod,
            !.periods = MergePeriods(@, parsed, m.updates + 1),
            !.updates = @ + 1]

\* a manifest-update event that carries a copy of the Manifest
ManifestUpdateEventOfCopy(m) ==
  [type |-> "manifest-update", manifest |-> "copy",
   manifestFetchingDuration |-> Undefined]

\* EVENTS.manifestUpdate(currentManifest): built from the Manifest alone, when
\* refreshManifest is called; the fetch result is not an input
ManifestUpdateEvent(m) ==
  [type |-> "manifest-update", manifest |-> m.instance,
   manifestFetchingDuration |-> Undefined]

----------------------------------------------------------------------------
(* Source buffers *)

\* SourceBufferManager.isNative(bufferType)
IsNative(bufferType) == bufferType \in { "audio", "video" }

\* sourceBufferManager.createSourceBuffer(bufferType, codec), `made` being the
\* native source buffers created so far and the number of calls
CreateSourceBuffer(made, bufferType) ==
  [native |-> made.native \cup { bufferType }, calls |-> made.calls + 1]

RECURSIVE NativeBuffersFrom(_, _, _)
\* The forEach of createNativeSourceBuffersForPeriod from key i on.
\* adaptations[0] of an empty list is undefined, and reading its representations
\* throws a TypeError.
NativeBuffersFrom(i, layout, made) ==
  IF i > Len(layout) THEN [threw |-> FALSE, made |-> made]
  ELSE IF ~IsNative(layout[i].type) THEN NativeBuffersFrom(i + 1, layout, made)
  ELSE IF Len(layout[i].adaptations) = 0 THEN [threw |-> TRUE, made |-> made]
  ELSE IF layout[i].adaptations[1] > 0
       THEN NativeBuffersFrom(i + 1, layout,
                              CreateSourceBuffer(made, layout[i].type))
       ELSE NativeBuffersFrom(i + 1, layout, made)

CreateNativeSourceBuffersForPeriod(layout) ==
  NativeBuffersFrom(1, layout, [native |-> {}, calls |-> 0])

----------------------------------------------------------------------------
(* The refresh timers.  An update period is kept in thousandths of a second, *)
(* so that updatePeriod * 1000 ms is the same number.                        *)

\* the update period at load without the duration of the initial fetch
UpdatePeriodAtLoadUncorrected(minimumUpdatePeriod, manifestFetchingDuration) ==
  minimumUpdatePeriod[1] * 1000

\* manifest.minimumUpdatePeriod - ((manifestFetchingDuration || 0) / 1000)
UpdatePeriodAtLoad(minimumUpdatePeriod, manifestFetchingDuration) ==
  minimumUpdatePeriod[1] * 1000 - OrZero(manifestFetchingDuration)

\* minimumUpdatePeriod - (value.manifestFetchingDuration || 0) / 1000
UpdatePeriodAfterTimer(minimumUpdatePeriod, evt) ==
  minimumUpdatePeriod[1] * 1000 - OrZero(evt.manifestFetchingDuration)

\* the update period after an on-demand refresh, taken for milliseconds
UpdatePeriodAfterDemandInMs(minimumUpdatePeriod) ==
  minimumUpdatePeriod[1] * 1000 * 1000

\* refreshMinimumUpdatePeriod$.next(minimumUpdatePeriod)
UpdatePeriodAfterDemand(minimumUpdatePeriod) == minimumUpdatePeriod[1] * 1000

\* observableTimer(lastUpdatePeriod * 1000): a due time that is not positive
\* fires at once
TimerDue(t0, updatePeriod) == t0 + Max(0, updatePeriod)

\* The timer the mergeMap of updateManifest$ creates for a value of
\* refreshMinimumUpdatePeriod$; from, mup and fetchMs are history: which next()
\* armed it, the minimumUpdatePeriod it read and the duration of the fetch that
\* had just completed
Timer(from, updatePeriod, mup, fetchMs) ==
  [from |-> from, armedAt |-> now, due |-> TimerDue(now, updatePeriod),
   mup |-> mup, fetchMs |-> fetchMs]

Pending(bag) == BagToSet(bag)
Add(bag, e) == bag (+) SetToBag({ e })
Remove(bag, e) == bag (-) SetToBag({ e })

\* n events on the output, the last one of the given type
Emit(n, type) == [n |-> out.n + n, last |-> type, before |-> NoEvent]
\* The events of a sequence on the output, in order: `before` is the event that
\* the same notification put on the output just before the last one
EmitAll(events) ==
  [n |-> out.n + Len(events), last |-> events[Len(events)].type,
   before |-> IF Len(events) > 1 THEN events[Len(events) - 1] ELSE NoEvent]
Receive(evt) == [n |-> inp.n + 1, last |-> evt]

----------------------------------------------------------------------------
(* Init: the state before loadStreamOnMediaSource is called *)

Init ==
  /\ phase = "idle"
  /\ now = 0
  /\ load \in [initialTime : InitialTimes,
               manifestFetchingDuration : FetchingDurations,
               adaptations : AdaptationLayouts]
  /\ manifest \in [instance : { "manifest" },
                   hasUrl : BOOLEAN,
                   minimumUpdatePeriod : MinimumUpdatePeriods,
                   periods : { PeriodObjectsAtLoad },
                   updates : { 0 }]
  /\ replay = Undefined
  /\ timers = EmptyBag
  /\ fetches = EmptyBag
  /\ eos = [live |-> 0, started |-> 0]
  /\ media = [currentTime |-> 0, durationSet |-> FALSE]
  /\ sbm = [created |-> FALSE, native |-> {}, calls |-> 0, disposeAll |-> 0]
  /\ active = {}
  /\ error = NoError
  /\ inp = [n |-> 0, last |-> NoEvent]
  /\ out = [n |-> 0, last |-> "none", before |-> NoEvent]
  /\ subscribedAt = Undefined
  /\ refreshed = NotRefreshed
  /\ speed = NoSpeedManager
  /\ built = NothingBuilt
  /\ quality = NoQualityManager
  /\ live = NoLiveEventsHandler
  /\ bxf = NoBXF

----------------------------------------------------------------------------
(* loadStreamOnMediaSource(mediaSource, initialTime, autoPlay) *)

\* a load that does not check the initial Period
InitialPeriodUnchecked(initialTime) == FALSE

\* initialPeriod == null
NoInitialPeriod(initialTime) == GetPeriodForTime(initialTime) = NoPeriod

\* new MediaError("MEDIA_STARTING_TIME_NOT_FOUND", null, true)
StartingTimeNotFound == [code |-> "MEDIA_STARTING_TIME_NOT_FOUND", fatal |-> TRUE]
\* the TypeError of createNativeSourceBuffersForPeriod
TypeError == [code |-> "TypeError", fatal |-> FALSE]

\* The synchronous part: everything up to the return of the Observable.  A throw
\* leaves the function before an Observable exists.
Load ==
  /\ phase = "idle"
  /\ media' = [media EXCEPT !.durationSet = TRUE]
  /\ IF NoInitialPeriod(load.initialTime)
     THEN /\ phase' = "thrown"
          /\ error' = StartingTimeNotFound
          /\ UNCHANGED << sbm, replay >>
     ELSE LET made == CreateNativeSourceBuffersForPeriod(load.adaptations) IN
          /\ sbm' = [sbm EXCEPT !.created = TRUE, !.native = made.made.native,
                                 !.calls = made.made.calls]
          /\ IF made.threw
             THEN /\ phase' = "thrown"
                  /\ error' = TypeError
                  /\ UNCHANGED replay
             ELSE /\ phase' = "created"
                  /\ replay' =
                       IF TruthyAndPositive(manifest.minimumUpdatePeriod)
                       THEN Num(UpdatePeriodAtLoad(manifest.minimumUpdatePeriod,
                                                   load.manifestFetchingDuration))
                       ELSE Undefined
                  /\ UNCHANGED error
  /\ UNCHANGED << now, load, manifest, timers, fetches, eos, active,
                  inp, out, subscribedAt >>
  /\ UNCHANGED << refreshed, parts >>

\* the Observables given to observableMerge
Sources == { "updateManifest$", "loadedEvent$", "buffers$", "speedManager$",
             "stallingManager$" }

\* The subscription to the returned Observable: the merge subscribes to its
\* sources, and the ReplaySubject replays the value it holds to updateManifest$
Subscribe ==
  /\ phase = "created"
  /\ phase' = "running"
  /\ subscribedAt' = Num(now)
  /\ active' = Sources
  /\ timers' =
       IF replay = Undefined THEN timers
       ELSE Add(timers, Timer("load", replay[1], manifest.minimumUpdatePeriod,
                              OrZero(load.manifestFetchingDuration)))
  /\ UNCHANGED << now, load, manifest, replay, fetches, eos, media,
                  sbm, error, inp, out >>
  /\ UNCHANGED << refreshed, parts >>

----------------------------------------------------------------------------
(* The teardown of the subscription *)

\* a teardown that disposes of nothing
FinalizeWithoutDispose == UNCHANGED sbm

\* finalize(() => sourceBufferManager.disposeAll())
Finalize == sbm' = [sbm EXCEPT !.disposeAll = @ + 1]

\* a teardown that leaves the fetches in flight subscribed to
TeardownKeepingFetches ==
  /\ timers' = EmptyBag
  /\ fetches' = fetches
  /\ eos' = [eos EXCEPT !.live = 0]
  /\ active' = {}
  /\ sbm' = [sbm EXCEPT !.disposeAll = @ + 1]

\* Unsubscribing from the merge unsubscribes from every source and every inner
\* Observable of the mergeMaps: timers, fetches (through share and tap) and
\* maintainEndOfStream
Teardown ==
  /\ timers' = EmptyBag
  /\ fetches' = EmptyBag
  /\ eos' = [eos EXCEPT !.live = 0]
  /\ active' = {}
  /\ Finalize

\* the consumer unsubscribes
Unsubscribe ==
  /\ phase = "running"
  /\ phase' = "unsubscribed"
  /\ Teardown
  /\ UNCHANGED << now, load, manifest, replay, media, error, inp, out,
                  subscribedAt >>
  /\ UNCHANGED << refreshed, parts >>

\* An error notification of one of the sources of the merge ends the stream;
\* updateManifest$ has errors of its own, those of its fetches
SourceError ==
  /\ phase = "running"
  /\ active \ { "updateManifest$" } # {}
  /\ phase' = "errored"
  /\ error' = [code |-> "SOURCE_ERROR", fatal |-> TRUE]
  /\ Teardown
  /\ UNCHANGED << now, load, manifest, replay, media, inp, out, subscribedAt >>
  /\ UNCHANGED << refreshed, parts >>

----------------------------------------------------------------------------
(* refreshManifest(fetchManifest, manifest) *)

RefreshesStarted == manifest.updates + BagCardinality(fetches)

\* a refreshManifest that does not test the url
RefreshManifestOfAnyUrl(trigger) ==
  Add(fetches, [trigger |-> trigger, startedAt |-> now])

\* The subscription to refreshManifest: EMPTY without a url, else a fetch
RefreshManifest(trigger) ==
  IF ~manifest.hasUrl THEN fetches
  ELSE Add(fetches, [trigger |-> trigger, startedAt |-> now])

\* a timer of updateManifest$ expires
TimerFire(t) ==
  /\ BagIn(t, timers)
  /\ t.due <= now
  /\ RefreshesStarted < MaxRefresh
  /\ timers' = Remove(timers, t)
  /\ fetches' = RefreshManifest("timer")
  /\ UNCHANGED << phase, now, load, manifest, replay, eos, media, sbm, active,
                  error, inp, out, subscribedAt >>
  /\ UNCHANGED << refreshed, parts >>

\* The value the tap that follows a refresh gives to
\* refreshMinimumUpdatePeriod$.next, or Undefined when it calls no next
NextUpdatePeriod(trigger, m, evt) ==
  IF trigger = "timer"
  THEN IF Truthy(m.minimumUpdatePeriod)
       THEN Num(UpdatePeriodAfterTimer(m.minimumUpdatePeriod, evt))
       ELSE Undefined
  ELSE IF TruthyAndPositive(m.minimumUpdatePeriod)
       THEN Num(UpdatePeriodAfterDemand(m.minimumUpdatePeriod))
       ELSE Undefined

\* a tap that leaves the Manifest as it is
TapNothing(m, parsed) == m

\* tap((parsed) => { currentManifest.update(parsed); })
TapUpdate(m, parsed) == ManifestUpdate(m, parsed)

\* The fetch f emits the parsed manifest: update, then the manifest-update event
\* goes through the tap of its trigger and to the output
FetchSuccess(f, parsed) ==
  /\ BagIn(f, fetches)
  /\ LET m == TapUpdate(manifest, parsed)
         evt == ManifestUpdateEvent(m)
         next == NextUpdatePeriod(f.trigger, m, evt)
     IN /\ manifest' = m
        /\ timers' =
             IF next = Undefined THEN timers
             ELSE Add(timers, Timer(f.trigger, next[1], m.minimumUpdatePeriod,
                                    now - f.startedAt))
        /\ replay' = IF next = Undefined THEN replay ELSE next
        /\ out' = Emit(1, evt.type)
        /\ refreshed' =
             [evt |-> evt,
              carriedFetchDuration |->
                evt.manifestFetchingDuration = Num(now - f.startedAt)]
  /\ fetches' = Remove(fetches, f)
  /\ UNCHANGED << phase, now, load, eos, media, sbm, active, error,
                  inp, subscribedAt >>
  /\ UNCHANGED parts

\* The fetch f fails: refreshManifest and the mergeMaps pass the error on, and
\* the merge ends with it
FetchError(f) ==
  /\ BagIn(f, fetches)
  /\ phase' = "errored"
  /\ error' = [code |-> "MANIFEST_FETCH_ERROR", fatal |-> TRUE]
  /\ Teardown
  /\ UNCHANGED << now, load, manifest, replay, media, inp, out,
                  subscribedAt >>
  /\ UNCHANGED << refreshed, parts >>

----------------------------------------------------------------------------
(* The mergeMap on the events of the PeriodBufferManager *)

BuffersRunning == phase = "running" /\ "buffers$" \in active /\ inp.n < MaxEvents

\* case "end-of-stream": one more maintainEndOfStream(mediaSource), until
\* cancelEndOfStream$ emits
OnEndOfStream ==
  /\ BuffersRunning
  /\ inp' = Receive([type |-> "end-of-stream"])
  /\ eos' = [live |-> eos.live + 1, started |-> eos.started + 1]
  /\ UNCHANGED << phase, now, load, manifest, replay, timers, fetches,
                  media, sbm, active, error, out, subscribedAt >>
  /\ UNCHANGED << refreshed, parts >>

\* a cancelEndOfStream$.next that reaches no takeUntil
EndOfStreamNotCancelled(n) == n

\* cancelEndOfStream$.next(null): every takeUntil(cancelEndOfStream$) completes,
\* of the n live ones none is left
EndOfStreamAfterCancel(n) == 0

\* case "resume-stream"
OnResumeStream ==
  /\ BuffersRunning
  /\ inp' = Receive([type |-> "resume-stream"])
  /\ eos' = [eos EXCEPT !.live = EndOfStreamAfterCancel(@)]
  /\ UNCHANGED << phase, now, load, manifest, replay, timers, fetches,
                  media, sbm, active, error, out, subscribedAt >>
  /\ UNCHANGED << refreshed, parts >>

\* a seek on every discontinuity, native or not
CurrentTimeAlwaysNextTime(currentTime, bufferType, nextTime) == nextTime

\* mediaElement.currentTime after the case "discontinuity-encountered"
CurrentTimeAfterDiscontinuity(currentTime, bufferType, nextTime) ==
  IF IsNative(bufferType) THEN nextTime ELSE currentTime

\* case "discontinuity-encountered"
OnDiscontinuity(bufferType, nextTime) ==
  /\ BuffersRunning
  /\ inp' = Receive([type |-> "discontinuity-encountered",
                     bufferType |-> bufferType, nextTime |-> nextTime])
  /\ media' = [media EXCEPT !.currentTime =
                 CurrentTimeAfterDiscontinuity(@, bufferType, nextTime)]
  /\ UNCHANGED << phase, now, load, manifest, replay, timers, fetches,
                  eos, sbm, active, error, out, subscribedAt >>
  /\ UNCHANGED << refreshed, parts >>

\* case "needs-manifest-refresh"
OnNeedsManifestRefresh ==
  /\ BuffersRunning
  /\ RefreshesStarted < MaxRefresh
  /\ inp' = Receive([type |-> "needs-manifest-refresh"])
  /\ fetches' = RefreshManifest("demand")
  /\ UNCHANGED << phase, now, load, manifest, replay, timers, eos,
                  media, sbm, active, error, out, subscribedAt >>
  /\ UNCHANGED << refreshed, parts >>

\* the events of the PeriodBufferManager that have no case of their own
OtherBufferEvents == { "added-segment" }

\* a default case that returns EMPTY
SwallowOtherBufferEvent(type) ==
  /\ BuffersRunning
  /\ inp' = Receive([type |-> type])
  /\ UNCHANGED << phase, now, load, manifest, replay, timers, fetches,
                  eos, media, sbm, active, error, out, subscribedAt >>
  /\ UNCHANGED << refreshed, parts >>

\* default: observableOf(evt)
OnOtherBufferEvent(type) ==
  /\ BuffersRunning
  /\ inp' = Receive([type |-> type])
  /\ out' = Emit(1, type)
  /\ UNCHANGED << phase, now, load, manifest, replay, timers, fetches,
                  eos, media, sbm, active, error, subscribedAt >>
  /\ UNCHANGED << refreshed, parts >>

----------------------------------------------------------------------------
(* The other sources of the merge *)

\* SpeedManager(...).pipe(map(EVENTS.speedChanged))
OnSpeedChanged ==
  /\ phase = "running" /\ "speedManager$" \in active /\ inp.n < MaxEvents
  /\ inp' = Receive([type |-> "speed"])
  /\ out' = Emit(1, "speed-changed")
  /\ UNCHANGED << phase, now, load, manifest, replay, timers, fetches,
                  eos, media, sbm, active, error, subscribedAt >>
  /\ UNCHANGED << refreshed, parts >>

\* StallingManager(...).pipe(map(EVENTS.stalled))
OnStalled ==
  /\ phase = "running" /\ "stallingManager$" \in active /\ inp.n < MaxEvents
  /\ inp' = Receive([type |-> "stalling"])
  /\ out' = Emit(1, "stalled")
  /\ UNCHANGED << phase, now, load, manifest, replay, timers, fetches,
                  eos, media, sbm, active, error, subscribedAt >>
  /\ UNCHANGED << refreshed, parts >>

\* new MediaError("MEDIA_ERR_BLOCKED_AUTOPLAY", null, false)
BlockedAutoplay == [code |-> "MEDIA_ERR_BLOCKED_AUTOPLAY", fatal |-> FALSE]

\* a loadedEvent$ that says nothing of a blocked autoplay
LoadedAlone(evt) == << [type |-> "loaded"] >>

\* the events the mergeMap of loadedEvent$ makes of a notification of load$
LoadedEvents(evt) ==
  IF evt = "autoplay-blocked"
  THEN << [type |-> "warning", error |-> BlockedAutoplay], [type |-> "loaded"] >>
  ELSE << [type |-> "loaded"] >>

\* loadedEvent$: load$ emits once, "autoplay-blocked" or not
OnLoad(evt) ==
  /\ phase = "running" /\ "loadedEvent$" \in active /\ inp.n < MaxEvents
  /\ inp' = Receive([type |-> evt])
  /\ out' = EmitAll(LoadedEvents(evt))
  /\ active' = active \ { "loadedEvent$" }
  /\ UNCHANGED << phase, now, load, manifest, replay, timers, fetches,
                  eos, media, sbm, error, subscribedAt >>
  /\ UNCHANGED << refreshed, parts >>

----------------------------------------------------------------------------
(* The clock *)

MaxTime == MaxTicks * 500

\* Time passes, up to the next pending timer
Tick(d) ==
  /\ phase \in { "created", "running" }
  /\ now < MaxTime
  /\ \A t \in Pending(timers) : t.due > now
  /\ now' = LET dues == { t.due : t \in Pending(timers) } \cup { now + d }
            IN CHOOSE x \in dues : \A y \in dues : x <= y
  /\ UNCHANGED << phase, load, manifest, replay, timers, fetches, eos,
                  media, sbm, active, error, inp, out, subscribedAt >>
  /\ UNCHANGED << refreshed, parts >>

----------------------------------------------------------------------------

Next ==
  \/ Load
  \/ Subscribe
  \/ Unsubscribe
  \/ SourceError
  \/ \E t \in Pending(timers) : TimerFire(t)
  \/ \E f \in Pending(fetches) : \E mup \in FetchedUpdatePeriods :
       FetchSuccess(f, Parsed(mup))
  \/ \E f \in Pending(fetches) : FetchError(f)
  \/ OnEndOfStream
  \/ OnResumeStream
  \/ \E bufferType \in BufferTypes : \E nextTime \in NextTimes :
       OnDiscontinuity(bufferType, nextTime)
  \/ OnNeedsManifestRefresh
  \/ \E type \in OtherBufferEvents : OnOtherBufferEvent(type)
  \/ OnSpeedChanged
  \/ OnStalled
  \/ \E evt \in { "autoplay-blocked", "loaded" } : OnLoad(evt)
  \/ \E d \in ClockSteps : Tick(d)

Spec == Init /\ [][Next]_vars

----------------------------------------------------------------------------
(* Steps of the run, told from the history variables *)

\* this step handled a buffer event of the given type
BufferEventStep(type) == inp'.n = inp.n + 1 /\ inp'.last.type = type

\* this step fired timer t: it is pending before, not after, and there was no
\* teardown
FireStep(t) == BagIn(t, timers) /\ ~BagIn(t, timers') /\ phase' = "running"

----------------------------------------------------------------------------
(* C1..C10: the refresh cycle, the teardown and the buffer events *)

\* C1: while the orchestrator runs, at most one manifest fetch started by
\* refreshManifest is in flight, whatever the interleaving of timer expiries
\* and needs-manifest-refresh events.
C1_AtMostOneFetchInFlight == BagCardinality(fetches) <= 1

\* C2: the timer armed when a timer-triggered refresh completes is due after
\* max(0, minimumUpdatePeriod - fetchDuration), with the minimumUpdatePeriod of
\* the updated manifest and the observed duration of the fetch that completed.
C2_NextRefreshAfterPeriodMinusFetch ==
  \A t \in Pending(timers) :
    t.from = "timer" =>
      t.due - t.armedAt = Max(0, t.mup[1] * 1000 - t.fetchMs)

\* C3, as stated: the first automatic refresh is due exactly
\* minimumUpdatePeriod - manifestFetchingDuration / 1000 seconds after the
\* subscription.
C3_FirstRefreshAfterPeriodMinusFetch ==
  \A t \in Pending(timers) :
    t.from = "load" =>
      t.due - subscribedAt[1] =
        t.mup[1] * 1000 - OrZero(load.manifestFetchingDuration)

\* C3, amended: a timer is armed at load only when minimumUpdatePeriod > 0, it
\* is armed at the subscription, it is due
\* max(0, minimumUpdatePeriod - manifestFetchingDuration / 1000) seconds after
\* the subscription, and it fires when it is due; with minimumUpdatePeriod
\* absent or <= 0 no timer is pending until a refresh has been started.
C3_FirstRefreshClamped ==
  /\ [](\A t \in Pending(timers) :
          t.from = "load" =>
            /\ TruthyAndPositive(t.mup)
            /\ t.armedAt = subscribedAt[1]
            /\ t.due = subscribedAt[1]
                 + Max(0, t.mup[1] * 1000 - OrZero(load.manifestFetchingDuration)))
  /\ []((RefreshesStarted = 0 /\ ~TruthyAndPositive(manifest.minimumUpdatePeriod))
          => timers = EmptyBag)
  /\ [][\A t \in Pending(timers) :
          (t.from = "load" /\ FireStep(t)) => now = t.due]_vars

\* C3 witness: running, the timer armed at load is pending with a clamped delay
\* of 1500 ms (2 s and 500 ms)
C3_Witness ==
  /\ phase = "running"
  /\ \E t \in Pending(timers) :
       t.from = "load" /\ t.due - subscribedAt[1] = 1500 /\ subscribedAt[1] > 0

\* C4: a manifest refresh whose fetch fails does not end the output stream: the
\* failure is a warning on the output and the sub-loops are still subscribed.
C4_FetchFailureIsAWarning ==
  error.code = "MANIFEST_FETCH_ERROR" =>
    /\ phase = "running"
    /\ out.last = "warning"
    /\ { "buffers$", "speedManager$", "stallingManager$" } \subseteq active

\* C5: once the consumer has unsubscribed no timer is pending and no fetch is in
\* flight, and no step emits an event, starts a fetch or updates the Manifest.
C5_NothingAfterUnsubscribe ==
  /\ [](phase = "unsubscribed" => timers = EmptyBag /\ fetches = EmptyBag)
  /\ [][phase = "unsubscribed" =>
          out' = out /\ manifest' = manifest /\ fetches' = fetches]_vars

\* C5 witness: unsubscribed while the fetch of a needs-manifest-refresh was in
\* flight (it was the last input, and the Manifest was never updated)
C5_Witness ==
  /\ phase = "unsubscribed"
  /\ manifest.hasUrl
  /\ inp.last.type = "needs-manifest-refresh"
  /\ manifest.updates = 0

\* C6: when the output stream has ended, by unsubscription or by an error,
\* disposeAll has been called exactly once; before that, not at all.
C6_DisposeAllOnceAtEnd ==
  /\ phase \in { "unsubscribed", "errored" } => sbm.disposeAll = 1
  /\ phase \in { "idle", "created", "running" } => sbm.disposeAll = 0

\* C6 witness: the stream ended with an error while source buffers existed
C6_Witness ==
  phase = "errored" /\ sbm.native = { "audio", "video" } /\ sbm.disposeAll = 1

\* C7: when getPeriodForTime(initialTime) finds no Period the load aborts with
\* the fatal MEDIA_STARTING_TIME_NOT_FOUND, no SourceBufferManager and no source
\* buffer exists, and no source of the merge has been subscribed to.
C7_AbortBeforeAnyBuffer ==
  (phase # "idle" /\ GetPeriodForTime(load.initialTime) = NoPeriod) =>
    /\ phase = "thrown"
    /\ error = [code |-> "MEDIA_STARTING_TIME_NOT_FOUND", fatal |-> TRUE]
    /\ ~sbm.created /\ sbm.native = {}
    /\ active = {} /\ subscribedAt = Undefined
    /\ timers = EmptyBag /\ fetches = EmptyBag
    /\ inp.n = 0 /\ out.n = 0

\* C7 witness: the load at time 2, in the gap between the Periods, has aborted
C7_Witness == phase = "thrown" /\ load.initialTime = 2

\* C8: a fatal condition met while loading ends the output stream with an error
\* notification; it is never an exception thrown to the caller.
C8_FatalThroughTheStream == error.fatal => phase = "errored"

C10_DiscontinuitySeek ==
  [][BufferEventStep("discontinuity-encountered") =>
       media'.currentTime =
         IF inp'.last.bufferType \in { "audio", "video" }
         THEN inp'.last.nextTime
         ELSE media.currentTime]_vars

\* C10 witness: a video discontinuity moved the current time from 0 to 3
C10_Witness ==
  /\ inp.last.type = "discontinuity-encountered"
  /\ inp.last.bufferType = "video"
  /\ inp.last.nextTime = 3
  /\ inp.n = 1
  /\ media.currentTime = 3

----------------------------------------------------------------------------
(* C11..C16: the refresh on demand, the manifest-update event, the loaded *)
(* event and the native source buffers                                    *)

\* this step is the success of the fetch f: the Manifest is updated and f is no
\* longer in flight
FetchSuccessStep(f) ==
  /\ BagIn(f, fetches)
  /\ fetches' = Remove(fetches, f)
  /\ manifest'.updates = manifest.updates + 1

\* C11: a needs-manifest-refresh event calls refreshManifest once (one more
\* fetch in flight when the manifest has a url, and nothing else changes); when
\* that fetch succeeds one manifest-update event goes to the output, and when
\* the minimumUpdatePeriod of the updated manifest is > 0 one timer is armed,
\* due that many seconds later; else no timer is armed.
C11_RefreshOnDemand ==
  [][/\ BufferEventStep("needs-manifest-refresh") =>
          /\ fetches' = IF manifest.hasUrl
                        THEN Add(fetches, [trigger |-> "demand", startedAt |-> now])
                        ELSE fetches
          /\ out' = out /\ timers' = timers /\ manifest' = manifest
     /\ \A f \in Pending(fetches) :
          (f.trigger = "demand" /\ FetchSuccessStep(f)) =>
            /\ out'.n = out.n + 1
            /\ out'.last = "manifest-update"
            /\ IF TruthyAndPositive(manifest'.minimumUpdatePeriod)
               THEN \E t \in Pending(timers') :
                      /\ timers' = Add(timers, t)
                      /\ t.armedAt = now
                      /\ t.due = now + manifest'.minimumUpdatePeriod[1] * 1000
               ELSE timers' = timers]_vars

\* C11 witness: the refresh of a needs-manifest-refresh event has succeeded with
\* a minimumUpdatePeriod of 2 s, its event is the last output and its timer is
\* pending, due 2000 ms after the success
C11_Witness ==
  /\ phase = "running"
  /\ inp.last.type = "needs-manifest-refresh"
  /\ out.last = "manifest-update"
  /\ manifest.updates = 1
  /\ \E t \in Pending(timers) : t.from = "demand" /\ t.due - t.armedAt = 2000

\* C12: a manifest-update event is emitted only by a step that has applied one
\* update to the Manifest and ended one fetch; a step that updates the Manifest
\* applies one update, ends one fetch and emits that one event; so the updates
\* applied are as many as the events emitted for them.
C12_UpdateThenEvent ==
  [][/\ (out'.n > out.n /\ out'.last = "manifest-update") =>
          /\ manifest'.updates = manifest.updates + 1
          /\ out'.n = out.n + 1
          /\ \E f \in Pending(fetches) : fetches' = Remove(fetches, f)
     /\ manifest' # manifest =>
          /\ manifest'.updates = manifest.updates + 1
          /\ out'.n = out.n + 1 /\ out'.last = "manifest-update"
          /\ \E f \in Pending(fetches) : fetches' = Remove(fetches, f)]_vars

\* C12 witness: two fetches have succeeded, the Manifest has been updated twice
\* and the second manifest-update event is the last output
C12_Witness ==
  /\ manifest.updates = 2
  /\ out.n = 2 /\ out.last = "manifest-update"
  /\ fetches = EmptyBag

\* C13: the last manifest-update event carries the duration of the fetch that
\* produced it.
C13_EventCarriesFetchDuration ==
  refreshed.evt.type = "manifest-update" => refreshed.carriedFetchDuration

\* C14: the Manifest is the instance passed at load, every manifest-update
\* event references it, and a Period whose id is in the fetched manifest is the
\* same object after the update.
C14_SameManifestInstance ==
  /\ [](/\ manifest.instance = "manifest"
        /\ refreshed.evt.type = "manifest-update" =>
             refreshed.evt.manifest = manifest.instance)
  /\ [][\A p \in manifest.periods :
          p.id \in FetchedPeriodIds => p \in manifest'.periods]_vars

\* C14 witness: after two refreshes the event references the Manifest, p2 is
\* the object of the load and p3 the one the first refresh added
C14_Witness ==
  /\ manifest.updates = 2
  /\ refreshed.evt.manifest = "manifest"
  /\ manifest.periods = { [id |-> "p2", object |-> 0], [id |-> "p3", object |-> 1] }

\* C15: a notification of load$ puts "loaded" on the output and leaves the
\* stream running; when it is "autoplay-blocked" the non-fatal warning
\* MEDIA_ERR_BLOCKED_AUTOPLAY is on the output just before, else nothing is.
C15_LoadedAfterWarning ==
  [][(inp'.n = inp.n + 1 /\ inp'.last.type \in { "autoplay-blocked", "loaded" }) =>
       /\ phase' = "running"
       /\ active' = active \ { "loadedEvent$" }
       /\ out'.last = "loaded"
       /\ IF inp'.last.type = "autoplay-blocked"
          THEN /\ out'.n = out.n + 2
               /\ out'.before =
                    [type |-> "warning",
                     error |-> [code |-> "MEDIA_ERR_BLOCKED_AUTOPLAY",
                                fatal |-> FALSE]]
          ELSE /\ out'.n = out.n + 1
               /\ out'.before = NoEvent]_vars

\* C15 witness: autoplay was blocked; the warning and then loaded are the two
\* events of the output, and the stream runs
C15_Witness ==
  /\ phase = "running"
  /\ inp.last.type = "autoplay-blocked"
  /\ out.n = 2 /\ out.last = "loaded" /\ out.before.type = "warning"
  /\ "buffers$" \in active

\* the native types that have an Adaptation with a Representation in the
\* initial Period
NativeTypesPresent(layout) ==
  { layout[i].type : i \in { j \in 1..Len(layout) :
                               /\ IsNative(layout[j].type)
                               /\ Len(layout[j].adaptations) > 0
                               /\ layout[j].adaptations[1] > 0 } }

\* C16: once the load has found the initial Period, each native type present
\* in it has its source buffer, created by one call, and there is no other.
C16_NativeBuffersAtLoad ==
  (phase # "idle" /\ ~NoInitialPeriod(load.initialTime)) =>
    /\ sbm.native = NativeTypesPresent(load.adaptations)
    /\ sbm.calls = Cardinality(sbm.native)

----------------------------------------------------------------------------
(* C28..C30: the other buffer events, the pending timers and the load *)

\* the buffer events that have a case of their own in the mergeMap
HandledBufferEvents ==
  { "end-of-stream", "resume-stream", "discontinuity-encountered",
    "needs-manifest-refresh" }

\* C28: a buffer event that is not end-of-stream, resume-stream,
\* discontinuity-encountered or needs-manifest-refresh is put on the output by
\* the step that receives it, once and as the last event; a step that receives
\* one of those four puts nothing on the output, and none of the four is ever
\* the last event of the output.
C28_OtherEventsForwarded ==
  /\ [](out.last \notin HandledBufferEvents)
  /\ [][/\ \A type \in OtherBufferEvents :
            BufferEventStep(type) =>
              out' = [n |-> out.n + 1, last |-> type, before |-> NoEvent]
        /\ \A type \in HandledBufferEvents :
            BufferEventStep(type) => out' = out]_vars

\* C28 witness: two added-segment events were received, and they are the two
\* events of the output
C28_Witness ==
  /\ phase = "running"
  /\ inp.n = 2 /\ inp.last.type = "added-segment"
  /\ out.n = 2 /\ out.last = "added-segment"

\* C29: at most one timer of updateManifest$ is pending.
C29_AtMostOneTimerPending == BagCardinality(timers) <= 1

\* C30: a load that has found its initial Period does not end by an exception
\* of createNativeSourceBuffersForPeriod.
C30_NativeBuffersWithoutThrow ==
  (phase # "idle" /\ ~NoInitialPeriod(load.initialTime)) => phase # "thrown"

----------------------------------------------------------------------------
(* The parts modelled apart: while one of them runs, the stream loader is *)
(* not loading                                                            *)

loader == << phase, now, load, manifest, replay, timers, fetches, eos,
             media, sbm, active, error, inp, out, subscribedAt, refreshed >>

\* the stream loader before any call, with a manifest that is never refreshed
LoaderIdle ==
  /\ phase = "idle"
  /\ now = 0
  /\ load = [initialTime |-> 0, manifestFetchingDuration |-> Undefined,
             adaptations |-> << >>]
  /\ manifest = [instance |-> "manifest", hasUrl |-> FALSE,
                 minimumUpdatePeriod |-> Undefined,
                 periods |-> PeriodObjectsAtLoad, updates |-> 0]
  /\ replay = Undefined
  /\ timers = EmptyBag
  /\ fetches = EmptyBag
  /\ eos = [live |-> 0, started |-> 0]
  /\ media = [currentTime |-> 0, durationSet |-> FALSE]
  /\ sbm = [created |-> FALSE, native |-> {}, calls |-> 0, disposeAll |-> 0]
  /\ active = {}
  /\ error = NoError
  /\ inp = [n |-> 0, last |-> NoEvent]
  /\ out = [n |-> 0, last |-> "none", before |-> NoEvent]
  /\ subscribedAt = Undefined
  /\ refreshed = NotRefreshed

----------------------------------------------------------------------------
(* The SpeedManager, as the stream loader creates it: speed$ gives the rate *)
(* the API requests and replays the last one, clock$ tells whether the      *)
(* buffer is still filling                                                  *)

\* inputs of the SpeedManager in one run, after the subscription
MaxSpeedInputs == 3

\* the rates the API requests
Speeds == { 1, 2 }

\* a SpeedManager that never pauses
PauseWhenStalledOff == FALSE

\* { pauseWhenStalled: true }
PauseWhenStalled == TRUE

\* the rate the SpeedManager sets on the media element
EffectiveRate(requested, filling) ==
  IF PauseWhenStalled /\ filling THEN 0 ELSE requested

InitSpeed ==
  /\ LoaderIdle
  /\ built = NothingBuilt
  /\ quality = NoQualityManager
  /\ live = NoLiveEventsHandler
  /\ bxf = NoBXF
  /\ \E v \in Speeds : \E filling \in BOOLEAN :
       speed = [on |-> TRUE, requested |-> v, filling |-> filling,
                playbackRate |-> EffectiveRate(v, filling),
                hist |-> << [type |-> "speed", value |-> v] >>]

SpeedManagerRunning == speed.on /\ Len(speed.hist) < 1 + MaxSpeedInputs

\* speed$ emits: the API requests the rate v
SetSpeed(v) ==
  /\ SpeedManagerRunning
  /\ speed' = [speed EXCEPT !.requested = v,
                            !.playbackRate = EffectiveRate(v, speed.filling),
                            !.hist = Append(@, [type |-> "speed", value |-> v])]
  /\ UNCHANGED << loader, built, quality, live, bxf >>

\* clock$ emits: the buffer is filling (stalled), or there is enough of it
ClockTick(filling) ==
  /\ SpeedManagerRunning
  /\ speed' = [speed EXCEPT !.filling = filling,
                            !.playbackRate = EffectiveRate(speed.requested, filling),
                            !.hist = Append(@, [type |-> "clock", filling |-> filling])]
  /\ UNCHANGED << loader, built, quality, live, bxf >>

NextSpeed ==
  \/ \E v \in Speeds : SetSpeed(v)
  \/ \E filling \in BOOLEAN : ClockTick(filling)

SpecSpeed == InitSpeed /\ [][NextSpeed]_vars

RECURSIVE LastOfType(_, _, _)
\* the last input of the given type among the first n of hist
LastOfType(hist, n, type) ==
  IF n = 0 THEN NoEvent
  ELSE IF hist[n].type = type THEN hist[n]
  ELSE LastOfType(hist, n - 1, type)

\* C17: while the buffer is filling mediaElement.playbackRate is 0, whatever
\* rate was requested; else it is the last rate requested, be it requested
\* while the buffer was filling.
C17_PausedWhileFilling ==
  speed.on =>
    /\ speed.filling => speed.playbackRate = 0
    /\ ~speed.filling =>
         speed.playbackRate =
           LastOfType(speed.hist, Len(speed.hist), "speed").value

\* C17 witness: rate 1, then the buffer fills, rate 2 is requested, and when
\* there is enough buffer the rate is 2
C17_Witness ==
  /\ speed.on
  /\ speed.hist = << [type |-> "speed", value |-> 1],
                     [type |-> "clock", filling |-> TRUE],
                     [type |-> "speed", value |-> 2],
                     [type |-> "clock", filling |-> FALSE] >>
  /\ speed.playbackRate = 2

----------------------------------------------------------------------------
(* The constructors of Adaptation and Period.  A call is made on arguments *)
(* the manifest parser gives; what the browser supports and what the       *)
(* representationFilter of the application accepts are inputs too.         *)

\* Representations in the arguments of an Adaptation
MaxRepresentations == 2
\* Adaptations of one type in the arguments of a Period
MaxAdaptations == 2

SeqsUpTo(S, n) == UNION { [1..k -> S] : k \in 0..n }

\* bitrates, in units of 100 kbit/s
Bitrates == { 1, 2 }
\* the codecs of the Representations; the browser supports the first
Codecs == { "avc1", "hev1" }
\* isCodecSupported(getCodec(representation))
IsCodecSupported(representation) == representation.codecs = "avc1"

\* The arguments of a Representation; accepted is what the representationFilter
\* answers for it, when there is one
RepresentationArguments ==
  [bitrate : Bitrates, codecs : Codecs, accepted : BOOLEAN]

\* a list of supported types that has every type of the manifest
AnyAdaptationsType == { "audio", "video", "text", "image", "metadata" }

\* SUPPORTED_ADAPTATIONS_TYPE
SupportedAdaptationsType == { "audio", "video", "text", "image" }

\* new MediaError("MANIFEST_INCOMPATIBLE_CODECS_ERROR", null, false)
IncompatibleCodecs == [code |-> "MANIFEST_INCOMPATIBLE_CODECS_ERROR", fatal |-> FALSE]
\* new MediaError("MANIFEST_UNSUPPORTED_ADAPTATION_TYPE", null, false)
UnsupportedAdaptationType ==
  [code |-> "MANIFEST_UNSUPPORTED_ADAPTATION_TYPE", fatal |-> FALSE]
\* new MediaError("MANIFEST_PARSE_ERROR", null, true)
ManifestParseError == [code |-> "MANIFEST_PARSE_ERROR", fatal |-> TRUE]

\* an Adaptation that keeps the Representations of every codec
FilterNoRepresentation(adaptationType, representations) == representations

\* filterSupportedRepresentations(adaptationType, representations)
FilterSupportedRepresentations(adaptationType, representations) ==
  IF adaptationType = "audio" \/ adaptationType = "video"
  THEN SelectSeq(representations, IsCodecSupported)
  ELSE representations

\* the permutations of 1..n
Orders(n) ==
  { f \in [1..n -> 1..n] : \A i, j \in 1..n : i # j => f[i] # f[j] }

\* an Adaptation that leaves its Representations in the order of the manifest
KeepOrder(representations) == { representations }

\* .sort((a, b) => a.bitrate - b.bitrate): the orders in which the bitrates
\* ascend; the engine decides the order of two Representations of one bitrate
SortByBitrate(representations) ==
  LET n == Len(representations)
      ascending == { f \in Orders(n) :
                       \A i \in 1..(n - 1) :
                         representations[f[i]].bitrate
                           <= representations[f[i + 1]].bitrate }
  IN { [i \in 1..n |-> representations[f[i]]] : f \in ascending }

\* args[field], undefined when the arguments have no such field
Optional(args, field) ==
  IF field \in DOMAIN args THEN args[field] ELSE Undefined

\* The second argument of the representationFilter: this.type and the fields
\* the constructor has set from the arguments that are not null
AdaptationInfos(args) ==
  [bufferType |-> args.type,
   language |-> Optional(args, "language"),
   normalizedLanguage |-> Optional(args, "normalizedLanguage"),
   isClosedCaption |-> Optional(args, "closedCaption"),
   isAudioDescription |-> Optional(args, "audioDescription")]

\* the calls of the representationFilter: one for each Representation that
\* reaches the filter, in order
FilterCalls(args, representations, hasFilter) ==
  IF hasFilter
  THEN [i \in 1..Len(representations) |->
          [representation |-> representations[i], infos |-> AdaptationInfos(args)]]
  ELSE << >>

\* an Adaptation that keeps what the representationFilter rejects
KeepRepresentations(representations, hasFilter) == representations

\* .filter(representation => representationFilter == null ? true : ...)
FilterRepresentations(representations, hasFilter) ==
  IF hasFilter
  THEN SelectSeq(representations, LAMBDA r : r.accepted)
  ELSE representations

\* The Adaptation constructor, `sorted` being what the sort made of the
\* supported Representations: the Adaptation, and the warnings it sent
NewAdaptation(args, hasFilter, sorted) ==
  LET argsRepresentations ==
        FilterSupportedRepresentations(args.type, args.representations)
  IN [adaptation |->
        [type |-> args.type,
         representations |-> FilterRepresentations(sorted, hasFilter)],
      filterCalls |-> FilterCalls(args, sorted, hasFilter),
      warnings |->
        IF Len(args.representations) > 0 /\ Len(argsRepresentations) = 0
        THEN << IncompatibleCodecs >>
        ELSE << >>]

\* getAvailableBitrates()
GetAvailableBitrates(adaptation) ==
  [i \in 1..Len(adaptation.representations) |->
     adaptation.representations[i].bitrate]

RECURSIVE WarningsOf(_, _)
\* the warnings of the Adaptations made from i on, in order
WarningsOf(made, i) ==
  IF i > Len(made) THEN << >>
  ELSE made[i].warnings \o WarningsOf(made, i + 1)

\* The Adaptations the Period constructor keeps for one key of args.adaptations,
\* and the warnings: filter on the type, map to new Adaptation, filter on the
\* Representations left.  The bitrates of an Adaptation of a Period are
\* distinct here, so the sort has one outcome.
AdaptationsForType(adaptationsForType, hasFilter) ==
  LET supported == SelectSeq(adaptationsForType,
                             LAMBDA a : a.type \in SupportedAdaptationsType)
      made == [i \in 1..Len(supported) |->
                 NewAdaptation(
                   supported[i], hasFilter,
                   CHOOSE sorted \in SortByBitrate(
                     FilterSupportedRepresentations(
                       supported[i].type, supported[i].representations)) : TRUE)]
  IN [adaptations |->
        SelectSeq([i \in 1..Len(made) |-> made[i].adaptation],
                  LAMBDA a : Len(a.representations) > 0),
      warnings |->
        [i \in 1..(Len(adaptationsForType) - Len(supported)) |->
           UnsupportedAdaptationType] \o WarningsOf(made, 1)]

RECURSIVE ReduceAdaptations(_, _, _, _)
\* the reduce over Object.keys(args.adaptations), from key i on
ReduceAdaptations(keys, i, hasFilter, acc) ==
  IF i > Len(keys) THEN acc
  ELSE LET forType == AdaptationsForType(keys[i].adaptations, hasFilter)
       IN ReduceAdaptations(
            keys, i + 1, hasFilter,
            [adaptations |->
               Append(acc.adaptations,
                      [type |-> keys[i].type, adaptations |-> forType.adaptations]),
             warnings |-> acc.warnings \o forType.warnings])

\* a Period that any Adaptation makes valid
NoAdaptation(adaptations) ==
  \A i \in 1..Len(adaptations) : Len(adaptations[i].adaptations) = 0

\* (!this.adaptations.video || !this.adaptations.video.length) &&
\* (!this.adaptations.audio || !this.adaptations.audio.length)
NoVideoNoAudio(adaptations) ==
  \A i \in 1..Len(adaptations) :
    adaptations[i].type \in { "video", "audio" } =>
      Len(adaptations[i].adaptations) = 0

\* The Period constructor: the adaptations of the Period, the warnings sent and
\* the error thrown
NewPeriod(args, hasFilter) ==
  LET reduced == ReduceAdaptations(args.adaptations, 1, hasFilter,
                                   [adaptations |-> << >>, warnings |-> << >>])
  IN [adaptations |-> reduced.adaptations,
      warnings |-> reduced.warnings,
      thrown |-> IF NoVideoNoAudio(reduced.adaptations)
                 THEN ManifestParseError ELSE NoError]

----------------------------------------------------------------------------
(* The calls of the constructors *)

\* the optional arguments of an Adaptation that the constructor reads: none,
\* those of a text track of closed captions, those of an audio description
OptionalArguments ==
  { << >>,
    [language |-> Num("fr"), normalizedLanguage |-> Num("fra"),
     closedCaption |-> Num(TRUE)],
    [language |-> Num("en"), audioDescription |-> Num(FALSE)] }

\* the arguments of an Adaptation
AdaptationArguments ==
  { [type |-> type, representations |-> representations] @@ optional :
      type \in SupportedAdaptationsType,
      representations \in SeqsUpTo(RepresentationArguments, MaxRepresentations),
      optional \in OptionalArguments }

Representation(bitrate, codecs, accepted) ==
  [bitrate |-> bitrate, codecs |-> codecs, accepted |-> accepted]

\* The Representations of the Adaptations in the arguments of a Period, for each
\* key of args.adaptations; "metadata" is a type that is not supported
PeriodRepresentations(type) ==
  CASE type = "video" ->
         { << Representation(2, "hev1", TRUE) >>,
           << Representation(1, "avc1", FALSE) >>,
           << Representation(2, "avc1", TRUE), Representation(1, "avc1", FALSE) >> }
    [] type = "audio" ->
         { << >>,
           << Representation(1, "hev1", TRUE) >>,
           << Representation(1, "avc1", TRUE) >> }
    [] type = "text" ->
         { << Representation(1, "hev1", TRUE) >> }
    [] OTHER ->
         { << Representation(1, "avc1", TRUE) >> }

\* args.adaptations[type]: undefined, or a list of arguments of Adaptations of
\* that type
AdaptationsOfType(type) ==
  { Undefined } \cup
  { Num(list) :
      list \in SeqsUpTo({ [type |-> type, representations |-> r] :
                            r \in PeriodRepresentations(type) },
                        MaxAdaptations) }

\* Object.keys(args.adaptations) and the lists, of the keys that are defined
KeysOf(video, audio, text, metadata) ==
  LET all == << [type |-> "video", list |-> video],
                [type |-> "audio", list |-> audio],
                [type |-> "text", list |-> text],
                [type |-> "metadata", list |-> metadata] >>
      defined == SelectSeq(all, LAMBDA k : k.list # Undefined)
  IN [i \in 1..Len(defined) |->
        [type |-> defined[i].type, adaptations |-> defined[i].list[1]]]

\* the arguments of a Period
PeriodArguments ==
  { [adaptations |-> KeysOf(video, audio, text, metadata)] :
      video \in AdaptationsOfType("video"),
      audio \in AdaptationsOfType("audio"),
      text \in AdaptationsOfType("text"),
      metadata \in AdaptationsOfType("metadata") }

\* Periods in a manifest given to getPeriodForTime
MaxPeriods == 2
\* the starts and the ends of these Periods, and the times looked up
PeriodTimes == 0..4

\* a Period of a manifest: [start, end), or [start, ...) when it has no end
PeriodBounds ==
  { b \in [start : PeriodTimes, end : { Undefined } \cup { Num(e) : e \in PeriodTimes }] :
      b.end # Undefined => b.start < b.end[1] }

\* The lists of Periods of a manifest: sorted by start, a Period begins at or
\* after the end of the one before it, and the i-th has the id i
ManifestPeriods ==
  { [i \in DOMAIN bounds |->
       [id |-> i, start |-> bounds[i].start, end |-> bounds[i].end]] :
      bounds \in { b \in SeqsUpTo(PeriodBounds, MaxPeriods) :
                     \A i \in 1..(Len(b) - 1) :
                       /\ b[i].end # Undefined
                       /\ b[i].end[1] <= b[i + 1].start } }

InitBuild ==
  /\ LoaderIdle
  /\ speed = NoSpeedManager
  /\ quality = NoQualityManager
  /\ live = NoLiveEventsHandler
  /\ bxf = NoBXF
  /\ \/ \E hasFilter \in BOOLEAN : \E args \in AdaptationArguments :
          built = [stage |-> "args", kind |-> "adaptation", args |-> args,
                   hasFilter |-> hasFilter]
     \/ \E hasFilter \in BOOLEAN : \E args \in PeriodArguments :
          built = [stage |-> "args", kind |-> "period", args |-> args,
                   hasFilter |-> hasFilter]
     \/ \E periods \in ManifestPeriods : \E time \in PeriodTimes :
          built = [stage |-> "args", kind |-> "getPeriodForTime",
                   periods |-> periods, time |-> time]

\* new Adaptation(args, warning$, representationFilter)
ConstructAdaptation ==
  /\ built.stage = "args" /\ built.kind = "adaptation"
  /\ \E sorted \in SortByBitrate(
         FilterSupportedRepresentations(built.args.type,
                                        built.args.representations)) :
       LET made == NewAdaptation(built.args, built.hasFilter, sorted)
       IN built' = [stage |-> "done", kind |-> "adaptation",
                    args |-> built.args, hasFilter |-> built.hasFilter,
                    result |-> made.adaptation, warnings |-> made.warnings,
                    thrown |-> NoError, filterCalls |-> made.filterCalls]
  /\ UNCHANGED << loader, speed, quality, live, bxf >>

\* adaptation.getAvailableBitrates()
CallGetAvailableBitrates ==
  /\ built.stage = "done" /\ built.kind = "adaptation"
  /\ built' = [stage |-> "read", kind |-> "adaptation",
               args |-> built.args, hasFilter |-> built.hasFilter,
               result |-> built.result, warnings |-> built.warnings,
               thrown |-> built.thrown, filterCalls |-> built.filterCalls,
               bitrates |-> GetAvailableBitrates(built.result)]
  /\ UNCHANGED << loader, speed, quality, live, bxf >>

\* new Period(args, warning$, representationFilter)
ConstructPeriod ==
  /\ built.stage = "args" /\ built.kind = "period"
  /\ LET made == NewPeriod(built.args, built.hasFilter)
     IN built' = [stage |-> "done", kind |-> "period",
                  args |-> built.args, hasFilter |-> built.hasFilter,
                  result |-> IF made.thrown = NoError
                             THEN made.adaptations ELSE << >>,
                  warnings |-> made.warnings, thrown |-> made.thrown]
  /\ UNCHANGED << loader, speed, quality, live, bxf >>

\* manifest.getPeriodForTime(time)
CallGetPeriodForTime ==
  /\ built.stage = "args" /\ built.kind = "getPeriodForTime"
  /\ built' = [stage |-> "done", kind |-> "getPeriodForTime",
               periods |-> built.periods, time |-> built.time,
               result |-> PeriodOf(built.periods, 1, built.time)]
  /\ UNCHANGED << loader, speed, quality, live, bxf >>

NextBuild ==
  \/ ConstructAdaptation
  \/ CallGetAvailableBitrates
  \/ ConstructPeriod
  \/ CallGetPeriodForTime

SpecBuild == InitBuild /\ [][NextBuild]_vars

----------------------------------------------------------------------------
(* C18..C20: the Period and the Adaptation that are constructed *)

\* the Representation r of an Adaptation of the given type is kept: its codec
\* is supported when the type is audio or video, and the filter accepts it
Survives(type, r, hasFilter) ==
  /\ type \in { "audio", "video" } => IsCodecSupported(r)
  /\ hasFilter => r.accepted

\* the arguments have a video or an audio Adaptation with a Representation that
\* is kept
ViableVideoOrAudio(args, hasFilter) ==
  \E i \in 1..Len(args.adaptations) :
    /\ args.adaptations[i].type \in { "video", "audio" }
    /\ \E j \in 1..Len(args.adaptations[i].adaptations) :
         LET a == args.adaptations[i].adaptations[j]
         IN \E k \in 1..Len(a.representations) :
              Survives(a.type, a.representations[k], hasFilter)

\* C18: the Period constructor throws the fatal MANIFEST_PARSE_ERROR when the
\* arguments have no video and no audio Adaptation with a Representation that
\* is kept, and throws nothing when they have one; text alone does not count.
C18_ParseErrorIffNoVideoNoAudio ==
  (built.stage = "done" /\ built.kind = "period") =>
    IF ViableVideoOrAudio(built.args, built.hasFilter)
    THEN built.thrown = NoError
    ELSE built.thrown = [code |-> "MANIFEST_PARSE_ERROR", fatal |-> TRUE]

\* C18 witness: the filter rejects the only video Representation, a text
\* Adaptation has one that is kept, and the constructor has thrown
C18_Witness ==
  /\ built.stage = "done" /\ built.kind = "period"
  /\ built.hasFilter
  /\ built.args.adaptations =
       << [type |-> "video",
           adaptations |-> << [type |-> "video",
                               representations |->
                                 << Representation(1, "avc1", FALSE) >>] >>],
          [type |-> "text",
           adaptations |-> << [type |-> "text",
                               representations |->
                                 << Representation(1, "hev1", TRUE) >>] >>] >>
  /\ built.thrown.code = "MANIFEST_PARSE_ERROR"

\* C19: the constructor of an audio or video Adaptation whose list of
\* Representations is not empty and has no supported codec sends one warning,
\* MANIFEST_INCOMPATIBLE_CODECS_ERROR, not fatal, and throws nothing; when the
\* list is empty or has a supported codec no Adaptation constructor sends it.
C19_IncompatibleCodecsWarning ==
  (built.stage = "done" /\ built.kind = "adaptation") =>
    LET reps == built.args.representations
        noneSupported ==
          Len(reps) > 0 /\ \A i \in 1..Len(reps) : ~IsCodecSupported(reps[i])
    IN /\ built.thrown = NoError
       /\ (built.args.type \in { "audio", "video" } /\ noneSupported) =>
            built.warnings =
              << [code |-> "MANIFEST_INCOMPATIBLE_CODECS_ERROR", fatal |-> FALSE] >>
       /\ ~noneSupported => built.warnings = << >>

\* C19 witness: an audio Adaptation of two Representations, both of a codec
\* that is not supported, has sent the warning
C19_Witness ==
  /\ built.stage = "done" /\ built.kind = "adaptation"
  /\ built.args.type = "audio"
  /\ Len(built.args.representations) = 2
  /\ \A i \in 1..2 : built.args.representations[i].codecs = "hev1"
  /\ Len(built.warnings) = 1
  /\ built.result.representations = << >>

\* C20: the representations of a constructed Adaptation ascend by bitrate, and
\* getAvailableBitrates() returns one bitrate per Representation, in the order
\* of representations: the bitrates of the Representations that were kept.
C20_BitratesAscending ==
  /\ (built.stage \in { "done", "read" } /\ built.kind = "adaptation") =>
       \A i \in 1..(Len(built.result.representations) - 1) :
         built.result.representations[i].bitrate
           <= built.result.representations[i + 1].bitrate
  /\ (built.stage = "read" /\ built.kind = "adaptation") =>
       /\ Len(built.bitrates) = Len(built.result.representations)
       /\ \A i \in 1..Len(built.bitrates) :
            built.bitrates[i] = built.result.representations[i].bitrate
       /\ \A b \in Bitrates :
            Cardinality({ i \in 1..Len(built.bitrates) : built.bitrates[i] = b })
              = Cardinality({ i \in 1..Len(built.args.representations) :
                               /\ built.args.representations[i].bitrate = b
                               /\ Survives(built.args.type,
                                           built.args.representations[i],
                                           built.hasFilter) })

\* C20 witness: two video Representations given by descending bitrate, both
\* kept, and getAvailableBitrates() has returned 1, 2
C20_Witness ==
  /\ built.stage = "read" /\ built.kind = "adaptation"
  /\ built.args.type = "video"
  /\ built.args.representations =
       << Representation(2, "avc1", TRUE), Representation(1, "avc1", TRUE) >>
  /\ built.bitrates = << 1, 2 >>

----------------------------------------------------------------------------
(* C21, C27: the Representations an Adaptation keeps, and the lookup of a *)
(* Period by time                                                         *)

\* how many times x is in the list
Count(list, x) == Cardinality({ i \in 1..Len(list) : list[i] = x })

\* C21: the representations of a constructed Adaptation are the Representations
\* of its arguments whose codec is supported, when the type is audio or video,
\* and that the representationFilter, when there is one, accepts, each as many
\* times as the arguments have it; the filter is called once for each
\* Representation that passed the codec filter, every time with the type of
\* the Adaptation as bufferType and its language, normalizedLanguage,
\* isClosedCaption and isAudioDescription.
C21_SurvivesIffSupportedAndAccepted ==
  (built.stage = "done" /\ built.kind = "adaptation") =>
    /\ \A r \in RepresentationArguments :
         Count(built.result.representations, r) =
           IF /\ built.args.type \in { "audio", "video" } => r.codecs = "avc1"
              /\ built.hasFilter => r.accepted
           THEN Count(built.args.representations, r)
           ELSE 0
    /\ Len(built.filterCalls) =
         IF ~built.hasFilter THEN 0
         ELSE Cardinality(
                { i \in 1..Len(built.args.representations) :
                    built.args.type \in { "audio", "video" } =>
                      built.args.representations[i].codecs = "avc1" })
    /\ \A i \in 1..Len(built.filterCalls) :
         LET infos == built.filterCalls[i].infos
             given(field) == IF field \in DOMAIN built.args
                             THEN built.args[field] ELSE << >>
         IN /\ infos.bufferType = built.args.type
            /\ infos.language = given("language")
            /\ infos.normalizedLanguage = given("normalizedLanguage")
            /\ infos.isClosedCaption = given("closedCaption")
            /\ infos.isAudioDescription = given("audioDescription")

\* C21 witness: a video Adaptation of closed captions in French, one
\* Representation that the filter accepts and one that it rejects, both of a
\* supported codec: the filter was called twice and one Representation is kept
C21_Witness ==
  /\ built.stage = "done" /\ built.kind = "adaptation"
  /\ built.hasFilter
  /\ built.args.type = "video"
  /\ built.args.representations =
       << Representation(2, "avc1", TRUE), Representation(1, "avc1", FALSE) >>
  /\ Len(built.filterCalls) = 2
  /\ built.filterCalls[1].infos =
       [bufferType |-> "video", language |-> << "fr" >>,
        normalizedLanguage |-> << "fra" >>, isClosedCaption |-> << TRUE >>,
        isAudioDescription |-> << >>]
  /\ built.result.representations = << Representation(2, "avc1", TRUE) >>

\* C27: getPeriodForTime(t), on Periods that are sorted and do not overlap,
\* returns the Period with start <= t and t < end (no end: any t from start on)
\* when there is one, and no Period when there is none.
C27_PeriodContainingTime ==
  (built.stage = "done" /\ built.kind = "getPeriodForTime") =>
    LET containing ==
          { i \in 1..Len(built.periods) :
              /\ built.periods[i].start <= built.time
              /\ \/ built.periods[i].end = Undefined
                 \/ built.time < built.periods[i].end[1] }
    IN /\ Cardinality(containing) <= 1
       /\ \A i \in containing : built.result = built.periods[i]
       /\ containing = { } => built.result = NoPeriod

\* C27 witness: Periods [0, 2) and [2, 4), looked up at 2, the end of the
\* first and the start of the second: the second is returned
C27_Witness ==
  /\ built.stage = "done" /\ built.kind = "getPeriodForTime"
  /\ built.periods = << [id |-> 1, start |-> 0, end |-> Num(2)],
                        [id |-> 2, start |-> 2, end |-> Num(4)] >>
  /\ built.time = 2
  /\ built.result.id = 2

----------------------------------------------------------------------------
(* The PlaybackQualityManager: getQualities$ on a video element, for an      *)
(* Adaptation of two Representations.  On each tick of clock$ every          *)
(* Representation gets a sample, and the map of the qualities is emitted     *)
(* when it is not the map emitted last.  Times and weights are in ms, the    *)
(* ratios and the means in units of 1/One.                                   *)

\* ticks of clock$ in one run
MaxQualityTicks == 4

\* the number 1
One == 10000
\* new EWMA(10), new EWMA(120): the half-lives, in seconds
FastHalfLife == 10
SlowHalfLife == 120

\* a number that is NaN, and one that is not
NaN == [nan |-> TRUE]
Number(v) == [nan |-> FALSE, v |-> v]
IsNaN(x) == x.nan

\* 2^(-1/2), 2^(-1/4), ... 2^(-1/2^10), rounded
HalfPowers ==
  << 7071, 8409, 9170, 9576, 9786, 9892, 9946, 9973, 9986, 9993 >>
FracBits == Len(HalfPowers)

RECURSIVE TwoToThe(_)
TwoToThe(n) == IF n = 0 THEN 1 ELSE 2 * TwoToThe(n - 1)

RECURSIVE TimesHalfPowers(_, _, _)
\* acc times 2^(-2^(-j)) for each j up to i whose bit is set in frac, the bit
\* of i being the lowest
TimesHalfPowers(acc, frac, i) ==
  IF i = 0 THEN acc
  ELSE TimesHalfPowers(
         IF frac % 2 = 1
         THEN (acc * HalfPowers[i] + One \div 2) \div One
         ELSE acc,
         frac \div 2, i - 1)

\* 2^(-x / 2^FracBits)
TwoToTheMinus(x, unit) ==
  TimesHalfPowers(One \div TwoToThe(x \div unit), x % unit, FracBits)

\* Math.pow(alpha, weight), alpha being exp(log(0.5) / halfLife) and weight a
\* time in ms: 2^(-weight / (1000 * halfLife))
Decay(halfLife, weight) ==
  IF weight = 0 THEN One
  ELSE TwoToTheMinus((weight * TwoToThe(FracBits)) \div (1000 * halfLife),
                     TwoToThe(FracBits))

\* An EWMA is kept as the estimate getEstimate() returns, the weighted mean of
\* the samples, which is NaN (0 / 0) while their total weight is 0, and as
\* decay, Math.pow(alpha, totalWeight); samples counts the calls of addSample
NewEWMA(halfLife) ==
  [halfLife |-> halfLife, estimate |-> NaN, decay |-> One, samples |-> 0]

\* the mean of a sample that weighs ofSample and of the estimate of the samples
\* before it, which weigh ofBefore
Mean(ewma, value, a, ofSample, ofBefore) ==
  IF ofSample + ofBefore = 0 THEN [ewma EXCEPT !.samples = @ + 1]
  ELSE [ewma EXCEPT
          !.estimate =
            Number((value * ofSample
                      + (IF IsNaN(@) THEN 0 ELSE @.v) * ofBefore)
                     \div (ofSample + ofBefore)),
          !.decay = (a * @) \div One,
          !.samples = @ + 1]

\* a sample decays what came before it by a
AddSampleDecayedBy(ewma, value, a) ==
  Mean(ewma, value, a, One - a, (a * (One - ewma.decay)) \div One)

\* addSample(weight, value), value being a number: the sample weighs 1 - a and
\* the samples before it a * (1 - decay), a being Math.pow(alpha, weight)
AddSample(ewma, weight, value) ==
  AddSampleDecayedBy(ewma, value, Decay(ewma.halfLife, weight))

GetEstimate(ewma) == ewma.estimate

RECURSIVE Sum(_, _)
Sum(list, i) == IF i > Len(list) THEN 0 ELSE list[i] + Sum(list, i + 1)

\* the factory of meansForStream
NewMeans ==
  [fastEWMA |-> NewEWMA(FastHalfLife), slowEWMA |-> NewEWMA(SlowHalfLife),
   weights |-> << 0 >>]

\* addSampleOnPlayback(weight, ratio)
AddSampleOnPlayback(means, weight, ratio) ==
  [fastEWMA |-> AddSample(means.fastEWMA, weight, ratio),
   slowEWMA |-> AddSample(means.slowEWMA, weight, ratio),
   weights |-> Append(means.weights, weight)]

\* weights.reduce((acc, value) => acc + value) / weights.length; the weights
\* of the model make the mean a whole number of ms
MeanWeight(weights) == Sum(weights, 1) \div Len(weights)

\* a stream whose fast mean is not reset while it is not played
AddSampleOnPendingWithoutReset(means) ==
  [fastEWMA |-> AddSample(means.fastEWMA, MeanWeight(means.weights), One),
   slowEWMA |-> AddSample(means.slowEWMA, MeanWeight(means.weights), One),
   weights |-> means.weights]

\* a stream that is given the ratio 0 while it is not played, its fast mean
\* being kept
AddSampleOnPendingOfZero(means) ==
  LET meanWeight == MeanWeight(means.weights)
  IN [fastEWMA |-> AddSample(means.fastEWMA, meanWeight, 0),
      slowEWMA |-> AddSample(means.slowEWMA, meanWeight, 0),
      weights |-> means.weights]

\* addSampleOnPending()
AddSampleOnPending(means) ==
  LET meanWeight == MeanWeight(means.weights)
  IN [fastEWMA |-> AddSample(NewEWMA(FastHalfLife), meanWeight, One),
      slowEWMA |-> AddSample(means.slowEWMA, meanWeight, One),
      weights |-> means.weights]

\* getMeans()
GetMeans(means) ==
  [fast |-> GetEstimate(means.fastEWMA), slow |-> GetEstimate(means.slowEWMA)]

\* Math.min(a, b)
MathMin(a, b) ==
  IF IsNaN(a) \/ IsNaN(b) THEN NaN
  ELSE Number(IF a.v <= b.v THEN a.v ELSE b.v)

\* a quality that is cut after its second decimal
TruncatedToHundredths(x) ==
  IF IsNaN(x) THEN NaN ELSE Number((x.v * 100) \div One)

\* Math.round(x * 100) / 100, in hundredths
RoundedToHundredths(x) ==
  IF IsNaN(x) THEN NaN ELSE Number((x.v * 100 + One \div 2) \div One)

\* !isNaN(streamQuality) ? streamQuality : undefined
StreamQualityOrUndefined(streamQuality) ==
  IF IsNaN(streamQuality) THEN Undefined ELSE Num(streamQuality.v)

\* a quality that is the frame loss
LocalStreamQualityOfLoss(frameLoss) ==
  IF IsNaN(frameLoss) THEN NaN ELSE Number(frameLoss.v - One)

\* 1 - frameLoss
LocalStreamQuality(frameLoss) ==
  IF IsNaN(frameLoss) THEN NaN ELSE Number(One - frameLoss.v)

\* adaptation.representations: the ids of the Representations
RepresentationIds == << "r1", "r2" >>
Ids == { RepresentationIds[i] : i \in 1..Len(RepresentationIds) }
\* getStreamId(period, adaptation, representation)
GetStreamId(id) == << "p1", "a1", id >>

NoStream == << >>

\* a played stream that is the first of the buffered ones
FirstBufferedStream(bufferedStreams) ==
  IF bufferedStreams = << >> THEN NoStream ELSE bufferedStreams[1]

\* bufferedStreams.length === 1 ? bufferedStreams[0] : undefined
PlayedStream(bufferedStreams) ==
  IF Len(bufferedStreams) = 1 THEN bufferedStreams[1] ELSE NoStream

\* a comparison that finds any two maps different
NeverSame(a, b) == FALSE

\* The compare of distinctUntilChanged: a.length and b.length are both
\* undefined for two maps, then a[key] === b[key] for each key of a
SameQualities(a, b) ==
  \A key \in DOMAIN a : key \in DOMAIN b /\ a[key] = b[key]

\* before the first emission
NoQualities == << >>
\* observableOf(null)
NullQualities == << "null" >>

\* what getFrameLossFromLastPosition returns: the frames dropped since the last
\* tick over the frames decoded since, NaN when none was decoded
FrameLosses == { NaN, Number(0), Number(One \div 2), Number(One) }
\* currentTime on the first tick
FirstTimes == { 0, 6000 }
\* currentTime on a tick, less currentTime on the tick before: a seek backward,
\* a pause, playback at rate 1 and at rate 2 with a tick every 6 s
TimeSteps == { -6000, 0, 6000, 12000 }

\* What getBufferedStreams may return for the range [start, end]: no stream, one
\* stream, two streams; no stream was played over a range that ends before it
\* starts
BufferedStreams(start, end) ==
  IF start > end THEN { << >> }
  ELSE { << >>,
         << [streamId |-> GetStreamId(RepresentationIds[1])] >>,
         << [streamId |-> GetStreamId(RepresentationIds[2])] >>,
         << [streamId |-> GetStreamId(RepresentationIds[1])],
            [streamId |-> GetStreamId(RepresentationIds[2])] >> }

NoTick == [n |-> 0]

InitQuality ==
  /\ LoaderIdle
  /\ speed = NoSpeedManager
  /\ built = NothingBuilt
  /\ live = NoLiveEventsHandler
  /\ bxf = NoBXF
  /\ \E isVideo \in BOOLEAN :
       quality = [on |-> "created", isVideo |-> isVideo,
                  lastCurrentTime |-> Undefined,
                  meansForStream |-> [id \in Ids |-> NewMeans],
                  emitted |-> NoQualities, tick |-> NoTick]

\* getQualities$ on a media element that is not a video element:
\* observableOf(null)
GetQualitiesOfOtherElement ==
  /\ quality.on = "created" /\ ~quality.isVideo
  /\ quality' = [quality EXCEPT !.on = "completed", !.emitted = NullQualities]
  /\ UNCHANGED << loader, speed, built, live, bxf >>

\* getQualities$ on a video element, subscribed to
GetQualities ==
  /\ quality.on = "created" /\ quality.isVideo
  /\ quality' = [quality EXCEPT !.on = "running"]
  /\ UNCHANGED << loader, speed, built, live, bxf >>

\* a tick that measures no stream
SampleOfPending(id, playedStream, localStreamQuality) == "pending"

\* The sample the stream of one Representation is given on the tick
SampleOf(id, playedStream, localStreamQuality) ==
  IF /\ playedStream # NoStream
     /\ playedStream.streamId = GetStreamId(id)
     /\ ~IsNaN(localStreamQuality)
  THEN "playback" ELSE "pending"

\* The map of one tick: the means of each stream after its sample, and the
\* quality of each Representation
MapOfTick(meansForStream, samples, meanWeight, localStreamQuality) ==
  LET means == [id \in Ids |->
                  IF samples[id] = "playback"
                  THEN AddSampleOnPlayback(meansForStream[id],
                                           meanWeight, localStreamQuality.v)
                  ELSE AddSampleOnPending(meansForStream[id])]
  IN { [means |-> m,
        qualities |->
          [id \in Ids |->
             StreamQualityOrUndefined(
               RoundedToHundredths(
                 MathMin(GetMeans(m[id]).fast, GetMeans(m[id]).slow)))]] :
       m \in { means } }

\* One tick of clock$: the map, then distinctUntilChanged
OnClockTick(currentTime, frameLoss, bufferedStreams) ==
  LET lastCurrentTime == quality.lastCurrentTime
      \* lastCurrentTime || currentTime
      start == IF Truthy(lastCurrentTime) THEN lastCurrentTime[1] ELSE currentTime
      localStreamQuality == LocalStreamQuality(frameLoss)
      playedStream == PlayedStream(bufferedStreams)
      meanWeight == currentTime - start
      samples == [id \in Ids |-> SampleOf(id, playedStream, localStreamQuality)]
  IN \E made \in MapOfTick(quality.meansForStream, samples, meanWeight,
                           localStreamQuality) :
       LET qualities == made.qualities
           emits == \/ quality.emitted = NoQualities
                    \/ ~SameQualities(quality.emitted, qualities)
       IN quality' =
            [quality EXCEPT
               !.lastCurrentTime = Num(currentTime),
               !.meansForStream = made.means,
               !.emitted = IF emits THEN qualities ELSE @,
               !.tick = [n |-> @.n + 1,
                         bufferedStreams |-> bufferedStreams,
                         played |-> IF playedStream = NoStream THEN NoStream
                                    ELSE playedStream.streamId,
                         samples |-> samples,
                         localStreamQuality |-> localStreamQuality,
                         weights |->
                           [id \in Ids |->
                              IF samples[id] = "playback" THEN meanWeight
                              ELSE MeanWeight(quality.meansForStream[id].weights)],
                         pushed |->
                           [id \in Ids |->
                              Len(made.means[id].weights)
                                - Len(quality.meansForStream[id].weights)],
                         qualities |-> qualities,
                         emits |-> emits,
                         before |-> IF quality.tick.n = 0 THEN NoTick
                                    ELSE [n |-> quality.tick.n,
                                          played |-> quality.tick.played,
                                          qualities |-> quality.tick.qualities],
                         emittedBefore |-> quality.emitted]]

ClockTickOfQualities ==
  /\ quality.on = "running"
  /\ quality.tick.n < MaxQualityTicks
  /\ \E currentTime \in
         IF quality.lastCurrentTime = Undefined THEN FirstTimes
         ELSE { t \in { quality.lastCurrentTime[1] + d : d \in TimeSteps } : t >= 0 } :
       \E bufferedStreams \in
            BufferedStreams(IF Truthy(quality.lastCurrentTime)
                            THEN quality.lastCurrentTime[1] ELSE currentTime,
                            currentTime) :
         \* the frame loss is used when one stream is played: any other tick
         \* is taken with no frame lost
         \E frameLoss \in IF Len(bufferedStreams) = 1 THEN FrameLosses
                          ELSE { Number(0) } :
           OnClockTick(currentTime, frameLoss, bufferedStreams)
  /\ UNCHANGED << loader, speed, built, live, bxf >>

NextQuality ==
  \/ GetQualitiesOfOtherElement
  \/ GetQualities
  \/ ClockTickOfQualities

SpecQuality == InitQuality /\ [][NextQuality]_vars

----------------------------------------------------------------------------
(* C22..C26: the samples and the qualities of a tick *)

\* C22: on a tick for which the bookkeeper reports no stream or more than one
\* over the range since the tick before, no Representation is given a measured
\* sample: each gets the sample of a stream that is pending, and no weight is
\* recorded.
C22_NoMeasuredSampleUnlessOnePlayed ==
  (quality.on = "running" /\ quality.tick.n > 0
     /\ Len(quality.tick.bufferedStreams) # 1) =>
    \A id \in Ids :
      /\ quality.tick.samples[id] = "pending"
      /\ quality.tick.pushed[id] = 0

\* C22 witness: the first Representation was played alone up to the tick
\* before and had its weight recorded, and on this tick two streams are
\* reported
C22_Witness ==
  /\ quality.on = "running" /\ quality.tick.n = 3
  /\ quality.tick.before.played = GetStreamId("r1")
  /\ Len(quality.meansForStream["r1"].weights) = 2
  /\ Len(quality.tick.bufferedStreams) = 2
  /\ \A id \in Ids : quality.tick.pushed[id] = 0

\* C23, as the specification states it: the quality of each Representation on
\* a tick is the number min(fast, slow) rounded to 2 decimals.
C23_QualityIsRoundedMin ==
  (quality.on = "running" /\ quality.tick.n > 0) =>
    \A id \in Ids :
      LET fast == quality.meansForStream[id].fastEWMA.estimate
          slow == quality.meansForStream[id].slowEWMA.estimate
      IN /\ ~fast.nan /\ ~slow.nan
         /\ quality.tick.qualities[id] =
              << ((IF fast.v <= slow.v THEN fast.v ELSE slow.v) * 100 + One \div 2)
                   \div One >>

\* C23, amended: the quality of each Representation on a tick is min(fast,
\* slow) rounded to 2 decimals when the two means are numbers, and undefined
\* when one of them is NaN.
C23_QualityIsRoundedMinOrUndefined ==
  (quality.on = "running" /\ quality.tick.n > 0) =>
    \A id \in Ids :
      LET fast == quality.meansForStream[id].fastEWMA.estimate
          slow == quality.meansForStream[id].slowEWMA.estimate
      IN IF fast.nan \/ slow.nan
         THEN quality.tick.qualities[id] = << >>
         ELSE quality.tick.qualities[id] =
                << ((IF fast.v <= slow.v THEN fast.v ELSE slow.v) * 100
                      + One \div 2) \div One >>

\* C23 witness: the quality of the first Representation is a number between 0
\* and 1 that its slow mean gives, the second has no quality
C23_Witness ==
  /\ quality.on = "running" /\ quality.tick.n > 0
  /\ quality.tick.qualities["r1"] # Undefined
  /\ quality.tick.qualities["r1"][1] \in 1..99
  /\ quality.meansForStream["r1"].slowEWMA.estimate.v
       < quality.meansForStream["r1"].fastEWMA.estimate.v
  /\ quality.tick.qualities["r2"] = Undefined

InRange(qualities) ==
  \A id \in DOMAIN qualities :
    qualities[id] = Undefined \/ (0 <= qualities[id][1] /\ qualities[id][1] <= 100)

C26_EmittedIffChanged ==
  (quality.on = "running" /\ quality.tick.n > 0) =>
    LET changed ==
          \/ quality.tick.emittedBefore = NoQualities
          \/ \E id \in Ids :
               quality.tick.emittedBefore[id] # quality.tick.qualities[id]
    IN /\ quality.tick.emits <=> changed
       /\ quality.emitted = IF changed THEN quality.tick.qualities
                            ELSE quality.tick.emittedBefore

\* C26 witness: the map of the tick differs from the map emitted last on the
\* first Representation alone, and it is emitted
C26_Witness ==
  /\ quality.on = "running" /\ quality.tick.n >= 2
  /\ quality.tick.emittedBefore # NoQualities
  /\ quality.tick.emittedBefore["r1"] # quality.tick.qualities["r1"]
  /\ quality.tick.emittedBefore["r2"] = quality.tick.qualities["r2"]
  /\ quality.tick.emits
  /\ quality.emitted = quality.tick.qualities

----------------------------------------------------------------------------
(* C31, C32: the load that aborts, and the refresh of a Manifest with no url *)

\* C31: when the load has thrown MEDIA_STARTING_TIME_NOT_FOUND, the duration
\* of the MediaSource has not been set.
C31_NoSideEffectBeforeAbort ==
  (phase = "thrown" /\ error = StartingTimeNotFound) => ~media.durationSet

\* C32: with a Manifest that has no url, a step that calls refreshManifest (a
\* needs-manifest-refresh event, or a timer that fires) starts no fetch, leaves
\* the Manifest, the output, the error and the ReplaySubject as they are and
\* arms no timer; no fetch is ever in flight, the Manifest is never updated and
\* no manifest-update event is made.
C32_NoRefreshWithoutUrl ==
  /\ [](~manifest.hasUrl =>
          /\ fetches = EmptyBag
          /\ manifest.updates = 0
          /\ refreshed = NotRefreshed
          /\ out.last # "manifest-update")
  /\ [][(/\ ~manifest.hasUrl
         /\ \/ BufferEventStep("needs-manifest-refresh")
            \/ \E t \in BagToSet(timers) : FireStep(t)) =>
          /\ fetches' = fetches
          /\ manifest' = manifest
          /\ out' = out
          /\ << phase, error, replay >>' = << phase, error, replay >>
          /\ \A t \in BagToSet(timers') : BagIn(t, timers)
          /\ BagCardinality(timers') <= BagCardinality(timers)]_vars

\* C32 witness: the Manifest has no url; the timer armed at load has fired and
\* a needs-manifest-refresh event was received: nothing is in flight, no timer
\* is pending and the stream runs
C32_Witness ==
  /\ phase = "running" /\ ~manifest.hasUrl
  /\ replay # Undefined /\ timers = EmptyBag
  /\ inp.last.type = "needs-manifest-refresh"
  /\ fetches = EmptyBag /\ error = NoError

----------------------------------------------------------------------------
(* C33..C35: the samples of the streams that are not played *)

\* the weights addSampleOnPlayback has recorded: weights without the 0 it is
\* created with
Measured(weights) == Tail(weights)

\* C33: the weight of the sample given to a stream that is pending is the
\* arithmetic mean of the weights of the measured samples recorded for it
\* before, when there is one.
C33_SyntheticWeightIsMeanOfMeasured ==
  (quality.on = "running" /\ quality.tick.n > 0) =>
    \A id \in Ids :
      LET measured == Measured(quality.meansForStream[id].weights)
      IN (quality.tick.samples[id] = "pending" /\ Len(measured) > 0) =>
           quality.tick.weights[id] * Len(measured) = Sum(measured, 1)

\* Math.round(slow * 100) / 100, undefined when slow is NaN
QualityOfSlowMean(slow) ==
  IF slow.nan THEN << >> ELSE << (slow.v * 100 + One \div 2) \div One >>

C35_OneSamplePerTick ==
  (quality.on = "running" /\ quality.tick.n > 0) =>
    \A id \in Ids :
      LET played ==
            /\ Len(quality.tick.bufferedStreams) = 1
            /\ quality.tick.bufferedStreams[1].streamId = GetStreamId(id)
            /\ ~quality.tick.localStreamQuality.nan
          means == quality.meansForStream[id]
      IN /\ means.slowEWMA.samples = quality.tick.n
         /\ means.fastEWMA.samples \in 1..quality.tick.n
         /\ quality.tick.samples[id] = IF played THEN "playback" ELSE "pending"
         /\ quality.tick.pushed[id] = IF played THEN 1 ELSE 0
         /\ played => means.weights[Len(means.weights)] = quality.tick.weights[id]
         /\ ~played => means.fastEWMA.samples = 1

\* C35 witness: on the third tick the first Representation is played alone
\* and its ratio is a number, the second is pending: each has had three
\* samples, and one weight is recorded for the first on this tick
C35_Witness ==
  /\ quality.on = "running" /\ quality.tick.n = 3
  /\ quality.tick.samples = [id \in Ids |-> IF id = "r1" THEN "playback" ELSE "pending"]
  /\ quality.tick.pushed = [id \in Ids |-> IF id = "r1" THEN 1 ELSE 0]
  /\ quality.tick.weights["r1"] > 0
  /\ \A id \in Ids : quality.meansForStream[id].slowEWMA.samples = 3

----------------------------------------------------------------------------
(* C36: the Adaptations a Period keeps *)

\* the Adaptations in the arguments of a Period, whatever their key
ArgumentsOfAdaptations(args) ==
  { << i, j >> \in (1..Len(args.adaptations)) \X (1..MaxAdaptations + 1) :
      j <= Len(args.adaptations[i].adaptations) }

\* C36: every Adaptation of a Period that was constructed has a Representation,
\* and the constructor, whether it throws or not, sends as many
\* MANIFEST_UNSUPPORTED_ADAPTATION_TYPE warnings, none fatal, as its arguments
\* have Adaptations of a type that is not audio, video, text or image; none of
\* these Adaptations is in the Period.
C36_KeptAdaptationsHaveRepresentations ==
  (built.stage = "done" /\ built.kind = "period") =>
    /\ \A i \in 1..Len(built.result) :
         \A j \in 1..Len(built.result[i].adaptations) :
           /\ Len(built.result[i].adaptations[j].representations) >= 1
           /\ built.result[i].adaptations[j].type
                \in { "audio", "video", "text", "image" }
    /\ Cardinality({ k \in 1..Len(built.warnings) :
                       built.warnings[k].code = "MANIFEST_UNSUPPORTED_ADAPTATION_TYPE" })
         = Cardinality({ a \in ArgumentsOfAdaptations(built.args) :
                           built.args.adaptations[a[1]].adaptations[a[2]].type
                             \notin { "audio", "video", "text", "image" } })
    /\ \A k \in 1..Len(built.warnings) : ~built.warnings[k].fatal

\* C36 witness: a Period of two Adaptations of the type metadata, of a video
\* Adaptation that the codec filter empties and of an audio Adaptation that
\* is kept: two warnings for the type, and the Period has the audio
\* Adaptation alone
C36_Witness ==
  /\ built.stage = "done" /\ built.kind = "period"
  /\ built.thrown = NoError
  /\ Cardinality({ k \in 1..Len(built.warnings) :
                     built.warnings[k].code = "MANIFEST_UNSUPPORTED_ADAPTATION_TYPE" }) = 2
  /\ \E i \in 1..Len(built.args.adaptations) :
       /\ built.args.adaptations[i].type = "video"
       /\ Len(built.args.adaptations[i].adaptations) = 1
       /\ built.result[i].adaptations = << >>
  /\ \E i \in 1..Len(built.result) :
       /\ built.result[i].type = "audio"
       /\ Len(built.result[i].adaptations) = 1
  /\ \A i \in 1..Len(built.result) :
       built.result[i].type = "metadata" => built.result[i].adaptations = << >>


----------------------------------------------------------------------------
(* liveEventsHandler: the handler of the buffer messages of a live content *)

\* the number of messages given to handleLiveEvents
MaxLiveMessages == 2

\* a buffer message: its type and, for a discontinuity, its value
Message(type, bufferType, nextTime) ==
  [type |-> type, value |-> [bufferType |-> bufferType, nextTime |-> nextTime]]

NoMessage == Message("none", "none", 0)

LiveMessages ==
  { Message("discontinuity-encountered", b, t) : b \in BufferTypes, t \in NextTimes }
    \cup { Message(type, "none", 0) :
             type \in { "needs-manifest-refresh", "added-segment", "end-of-stream" } }

\* the observables handleLiveEvents can return
NoObservable == [kind |-> "none", message |-> NoMessage]
ObservableOf(message) == [kind |-> "observableOf", message |-> message]
RefreshManifestOf == [kind |-> "refreshManifest", message |-> NoMessage]
EmptyObservable == [kind |-> "EMPTY", message |-> NoMessage]

\* mediaElement.currentTime after handleLiveEvents(message)
SeekOfLiveEvent(currentTime, message) ==
  IF message.type = "discontinuity-encountered" /\ IsNative(message.value.bufferType)
  THEN message.value.nextTime
  ELSE currentTime

\* a handler that forwards no discontinuity
ReturnedWithoutDiscontinuity(message) ==
  IF message.type = "needs-manifest-refresh" THEN RefreshManifestOf
  ELSE IF message.type = "discontinuity-encountered" THEN EmptyObservable
  ELSE ObservableOf(message)

\* what handleLiveEvents(message) returns
ReturnedByLiveEvent(message) ==
  IF message.type = "needs-manifest-refresh" THEN RefreshManifestOf
  ELSE ObservableOf(message)

InitLive ==
  /\ LoaderIdle
  /\ speed = NoSpeedManager
  /\ built = NothingBuilt
  /\ quality = NoQualityManager
  /\ bxf = NoBXF
  /\ \E hasUrl \in BOOLEAN :
       live = [stage |-> "idle", hasUrl |-> hasUrl, updates |-> 0,
               currentTime |-> 0, before |-> 0, n |-> 0, message |-> NoMessage,
               returned |-> NoObservable, emitted |-> << >>]

\* handleLiveEvents(message)
HandleLiveEvents(message) ==
  /\ live.stage \in { "idle", "completed" }
  /\ live.n < MaxLiveMessages
  /\ live' = [live EXCEPT !.stage = "returned",
                          !.n = @ + 1,
                          !.message = message,
                          !.before = live.currentTime,
                          !.currentTime = SeekOfLiveEvent(@, message),
                          !.returned = ReturnedByLiveEvent(message),
                          !.emitted = << >>]
  /\ UNCHANGED << loader, speed, built, quality, bxf >>

\* the subscription to the observable that handleLiveEvents returned
SubscribeToReturned ==
  /\ live.stage = "returned"
  /\ live' =
       IF live.returned.kind = "observableOf"
       THEN [live EXCEPT !.stage = "completed",
                         !.emitted = << live.returned.message >>]
       ELSE IF live.returned.kind = "refreshManifest" /\ live.hasUrl
       THEN [live EXCEPT !.stage = "fetching"]
       ELSE [live EXCEPT !.stage = "completed"]
  /\ UNCHANGED << loader, speed, built, quality, bxf >>

\* the manifest pipeline of refreshManifest emits the parsed manifest
LiveManifestFetched ==
  /\ live.stage = "fetching"
  /\ live' = [live EXCEPT !.stage = "completed",
                          !.updates = @ + 1,
                          !.emitted = << Message("manifest-update", "none", 0) >>]
  /\ UNCHANGED << loader, speed, built, quality, bxf >>

\* the manifest pipeline of refreshManifest fails
LiveManifestFetchFailed ==
  /\ live.stage = "fetching"
  /\ live' = [live EXCEPT !.stage = "errored"]
  /\ UNCHANGED << loader, speed, built, quality, bxf >>

NextLive ==
  \/ \E message \in LiveMessages : HandleLiveEvents(message)
  \/ SubscribeToReturned
  \/ LiveManifestFetched
  \/ LiveManifestFetchFailed

SpecLive == InitLive /\ [][NextLive]_vars

\* C37: handleLiveEvents sets the current time to nextTime for a discontinuity
\* of a native buffer type, and only then, and returns the message as a single
\* emission for every message but needs-manifest-refresh, for which it returns
\* the stream of refreshManifest, which never emits the message
C37_LiveEventsRouted ==
  live.n > 0 =>
    LET m == live.message IN
    /\ live.currentTime =
         IF m.type = "discontinuity-encountered"
              /\ m.value.bufferType \in { "audio", "video" }
         THEN m.value.nextTime
         ELSE live.before
    /\ IF m.type = "needs-manifest-refresh"
       THEN /\ live.returned.kind = "refreshManifest"
            /\ \A i \in 1..Len(live.emitted) : live.emitted[i] # m
            /\ live.updates > 0 => live.hasUrl
       ELSE /\ live.returned = ObservableOf(m)
            /\ live.stage \in { "returned", "completed" }
            /\ live.emitted = IF live.stage = "completed" THEN << m >> ELSE << >>

C37_Witness ==
  /\ live.n = MaxLiveMessages
  /\ live.stage = "completed"
  /\ live.message.type = "discontinuity-encountered"
  /\ live.message.value.bufferType = "video"
  /\ live.currentTime = live.message.value.nextTime
  /\ live.currentTime # live.before
  /\ live.emitted = << live.message >>


----------------------------------------------------------------------------
(* loadBXF: the metaplaylist made from the contents of a BXF *)

\* the number of contents of the parsed BXF
MaxContents == 2

\* const fillingDuration, const timeShiftBufferDepth, and the shift of a day
\* that loadBXF adds to every time
FillingDuration == 600
TimeShiftBufferDepth == 60 * 60 * 8
DayShift == 86400

\* the types of the videos that loadBXF asks a manifest URL for
EligibleTypes == { "CIN", "MUS", "CA", "SA", "EMI", "SER" }

Video(type, startTime, endTime) ==
  [type |-> type, startTime |-> startTime, endTime |-> endTime]

\* parsedContent.video: no such key, no video, one video, two videos. The
\* second list holds a video that starts where another ends, the third one
\* that starts later, the fourth two videos within the time of the first
VideosOfContents ==
  { << Video("CIN", 0, 1800) >>,
    << Video("SER", 1800, 2400) >>,
    << Video("EMI", 3200, 3800) >>,
    << Video("CIN", 300, 600), Video("MUS", 900, 1200) >>,
    << Video("PUB", 2400, 2500), Video("CIN", 2500, 3100) >>,
    << >> }

ParsedContents ==
  { [hasVideo |-> TRUE, video |-> videos] : videos \in VideosOfContents }
    \cup { [hasVideo |-> FALSE, video |-> << >>] }

\* an entry of contents and of the metaplaylist
PlaylistContent(video) ==
  [url |-> "manifestURL", startTime |-> video.startTime, endTime |-> video.endTime]

FillingContent(startTime, endTime) ==
  [url |-> "fillingManifestURL", startTime |-> startTime, endTime |-> endTime]

Lesser(a, b) == IF a <= b THEN a ELSE b

\* do { push the filler; diff -= fillingDuration; startTime = endTime;
\*      endTime = Math.min(startTime + fillingDuration, until) } while (diff > 0)
RECURSIVE FillingLoop(_, _, _, _)
FillingLoop(startTime, endTime, diff, until) ==
  << FillingContent(startTime, endTime) >>
    \o (IF diff - FillingDuration > 0
        THEN FillingLoop(endTime, Lesser(endTime + FillingDuration, until),
                         diff - FillingDuration, until)
        ELSE << >>)

\* the fillers that loadBXF makes from a time until another
FillingBetween(from, until) ==
  FillingLoop(from, Lesser(from + FillingDuration, until), until - from, until)

\* contents.forEach((content, i) => ...), from index i on
RECURSIVE ContentsWithBlack(_, _)
ContentsWithBlack(contents, i) ==
  IF i > Len(contents) THEN << >>
  ELSE (IF i = 1 THEN << contents[i] >>
        ELSE IF contents[i].startTime >= contents[i - 1].endTime
        THEN FillingBetween(contents[i - 1].endTime, contents[i].startTime)
               \o << contents[i] >>
        ELSE << >>)
       \o ContentsWithBlack(contents, i + 1)

\* entry j is put before entry i by a sort by startTime that keeps, or that
\* reverses, the order of two entries of one start time
SortsBefore(list, j, i, keeps) ==
  \/ list[j].startTime < list[i].startTime
  \/ list[j].startTime = list[i].startTime /\ (IF keeps THEN j < i ELSE j > i)

\* the place of each entry in the sorted list, as pairs << place, index >>
PlacesByStartTime(list, keeps) ==
  { << Cardinality({ j \in 1..Len(list) : SortsBefore(list, j, i, keeps) }) + 1, i >> :
      i \in 1..Len(list) }

Placed(list, places) ==
  [at \in 1..Len(list) |-> list[(CHOOSE place \in places : place[1] = at)[2]]]

\* .sort((A, B) => A.startTime - B.startTime): the start times ascend; the
\* engine decides the order of the entries of one start time, which is taken
\* to be the order they had or its reverse
SortByStartTime(list) ==
  { Placed(list, PlacesByStartTime(list, keeps)) : keeps \in BOOLEAN }

\* content.startTime += 86400; content.endTime += 86400
ShiftedByADay(list) ==
  [i \in 1..Len(list) |->
     [list[i] EXCEPT !.startTime = @ + DayShift, !.endTime = @ + DayShift]]

\* finalContent before its sort, of the sorted contents
FinalContent(contents) ==
  LET contentsWithBlack == ContentsWithBlack(contents, 1)
      beforeUntilTime == contentsWithBlack[1].startTime
      afterFromTime == contentsWithBlack[Len(contentsWithBlack)].endTime
  IN  ShiftedByADay(
        FillingBetween(beforeUntilTime - TimeShiftBufferDepth, beforeUntilTime)
          \o contentsWithBlack
          \o FillingBetween(afterFromTime, afterFromTime + TimeShiftBufferDepth))

\* the state of the requests of a video: none for a video of another type
RequestsOf(parsedContent) ==
  [v \in 1..Len(parsedContent.video) |->
     IF parsedContent.video[v].type \in EligibleTypes THEN "manifestURL" ELSE "none"]

\* the promise of a content after its executor has run: resolve() was called
\* for a content without the key video and for each video of another type
PromiseOf(parsedContent) ==
  IF ~parsedContent.hasVideo
       \/ \E v \in 1..Len(parsedContent.video) :
            parsedContent.video[v].type \notin EligibleTypes
  THEN "resolved"
  ELSE "pending"

\* Promise.all(promises) has resolved and its callback has not run yet
BuildDue ==
  /\ bxf.stage = "loading"
  /\ \A c \in 1..Len(bxf.promises) : bxf.promises[c] = "resolved"

InitBXF ==
  /\ LoaderIdle
  /\ speed = NoSpeedManager
  /\ built = NothingBuilt
  /\ quality = NoQualityManager
  /\ live = NoLiveEventsHandler
  /\ \E parsedContents \in SeqsUpTo(ParsedContents, MaxContents) :
       bxf = [stage |-> "parsed", parsedContents |-> parsedContents,
              requests |-> << >>, promises |-> << >>, contents |-> << >>,
              metaplaylist |-> << >>, returned |-> "pending"]

\* for (const parsedContent of parsedContents) promises.push(new Promise(...))
StartRequests ==
  /\ bxf.stage = "parsed"
  /\ bxf' = [bxf EXCEPT
       !.stage = "loading",
       !.requests = [c \in 1..Len(bxf.parsedContents) |->
                       RequestsOf(bxf.parsedContents[c])],
       !.promises = [c \in 1..Len(bxf.parsedContents) |->
                       PromiseOf(bxf.parsedContents[c])]]
  /\ UNCHANGED << loader, speed, built, quality, live >>

\* the request for the manifest URL of video v of content c is pending
Requesting(c, v, request) ==
  /\ bxf.stage \in { "loading", "built", "thrown" }
  /\ ~BuildDue
  /\ c \in 1..Len(bxf.requests)
  /\ v \in 1..Len(bxf.requests[c])
  /\ bxf.requests[c][v] = request

\* getManifestURL(...).then: the content is pushed and its KID is asked for
ManifestURLResolved(c, v) ==
  /\ Requesting(c, v, "manifestURL")
  /\ bxf' = [bxf EXCEPT
       !.requests[c][v] = "KID",
       !.contents = Append(@, PlaylistContent(bxf.parsedContents[c].video[v]))]
  /\ UNCHANGED << loader, speed, built, quality, live >>

\* getManifestURL(...).catch((_) => { resolve(); })
ManifestURLFailed(c, v) ==
  /\ Requesting(c, v, "manifestURL")
  /\ bxf' = [bxf EXCEPT !.requests[c][v] = "failed",
                        !.promises[c] = "resolved"]
  /\ UNCHANGED << loader, speed, built, quality, live >>

\* getKID(manifestURL).then(({ kid }) => { ...; resolve(); })
KIDResolved(c, v) ==
  /\ Requesting(c, v, "KID")
  /\ bxf' = [bxf EXCEPT !.requests[c][v] = "done",
                        !.promises[c] = "resolved"]
  /\ UNCHANGED << loader, speed, built, quality, live >>

\* xhr.onload of getKID throws on a manifest without a Protection element:
\* the promise of getKID stays pending
KIDUnreadable(c, v) ==
  /\ Requesting(c, v, "KID")
  /\ bxf' = [bxf EXCEPT !.requests[c][v] = "unreadable"]
  /\ UNCHANGED << loader, speed, built, quality, live >>

\* Promise.all(promises).then(() => { ...; return epg; })
BuildMetaplaylist ==
  /\ BuildDue
  /\ IF bxf.contents = << >>
     THEN bxf' = [bxf EXCEPT !.stage = "thrown", !.returned = "rejected"]
     ELSE \E contents \in SortByStartTime(bxf.contents) :
          \E unsorted \in { FinalContent(contents) } :
          \E finalContent \in SortByStartTime(unsorted) :
            bxf' = [bxf EXCEPT !.stage = "built",
                               !.metaplaylist = finalContent,
                               !.returned = "fulfilled"]
  /\ UNCHANGED << loader, speed, built, quality, live >>

NextBXF ==
  \/ StartRequests
  \/ \E c \in 1..MaxContents, v \in 1..2 : ManifestURLResolved(c, v)
  \/ \E c \in 1..MaxContents, v \in 1..2 : ManifestURLFailed(c, v)
  \/ \E c \in 1..MaxContents, v \in 1..2 : KIDResolved(c, v)
  \/ \E c \in 1..MaxContents, v \in 1..2 : KIDUnreadable(c, v)
  \/ BuildMetaplaylist

SpecBXF == InitBXF /\ [][NextBXF]_vars

\* a request of loadBXF has not completed
RequestPending(requests) ==
  \E c \in 1..Len(bxf.requests), v \in 1..2 :
    /\ v <= Len(bxf.requests[c])
    /\ bxf.requests[c][v] \in requests

\* C38: the contents of the metaplaylist are sorted by startTime and do not
\* overlap, each starts where the one before it ends, and each filler lasts
\* more than 0 and at most 600 seconds
C38_ContentsContiguous ==
  bxf.stage = "built" =>
    LET m == bxf.metaplaylist IN
    /\ \A i \in 1..(Len(m) - 1) :
         /\ m[i].startTime <= m[i + 1].startTime
         /\ m[i + 1].startTime = m[i].endTime
    /\ \A i, j \in 1..Len(m) : i < j => m[i].endTime <= m[j].startTime
    /\ \A i \in 1..Len(m) :
         m[i].url = "fillingManifestURL" =>
           /\ m[i].endTime - m[i].startTime > 0
           /\ m[i].endTime - m[i].startTime <= 600

\* C39: once every request has completed the promise of loadBXF has settled
\* or is about to, and the metaplaylist is built with no request for a
\* manifest URL left pending
C39_SettlesAfterEveryManifestURL ==
  /\ (bxf.stage = "loading" /\ ~RequestPending({ "manifestURL", "KID" }))
       => BuildDue
  /\ bxf.stage = "built" => ~RequestPending({ "manifestURL" })

====
